---- MODULE Spec2Model ----
(***************************************************************************)
(* Event-sourced Tetris: the transition engine (src/tetris_engine.py), the *)
(* policy validator (src/game_policy_validator.py) and the orchestrator    *)
(* (src/agents/tetris_agent.py).                                           *)
(*                                                                         *)
(* Python lists are sequences; a 0-based index i of the source is the      *)
(* 1-based index i + 1 here.  Python None is the string "None".  A dict    *)
(* is a record and dict.get is Get.                                        *)
(***************************************************************************)
EXTENDS Integers, Sequences, FiniteSets, TLC

VARIABLES
    game_state,   \* execution id -> GameState held by the TetrisExecution
    started,      \* execution ids for which start_game returned an execution
    event_store,  \* execution id -> sequence of events [state, payload]
    last,         \* what the last orchestrator call was and what it returned
    eng_state,    \* engine harness: the GameState handed to the engine
    eng_result,   \* engine harness: the operation applied and what it returned
    val_call,     \* validator harness: the arguments of a call and its PolicyResult
    inflight      \* execute_action calls that are suspended at an await

vars == <<game_state, started, event_store, last, eng_state, eng_result, val_call,
          inflight>>

(***************************************************************************)
(* Bounds of the model.  The agent builds TetrisEngine(rows=20, cols=10);  *)
(* the engine itself works for any rows x cols, and the model runs it on   *)
(* smaller boards.                                                         *)
(***************************************************************************)
AgentRows == 4
AgentCols == 7
MaxEvents == 6
MaxLog == 9
MaxPieces == 3
EngRows == 6
EngCols == 4
MaxFull == 1
MaxHoles == 4
MaxCol == 1
MaxPad == 10
MaxTail == 2
MaxClears == 3
MaxLines == 5
MaxWarmUp == 2
MaxSessionEvents == 3
MaxScriptBlocks == 5
MaxMidGame == 3
MaxRecent == 6

None == "None"

Get(d, k, default) == IF k \in DOMAIN d THEN d[k] ELSE default

Min(a, b) == IF a < b THEN a ELSE b

(***************************************************************************)
(* src/tetris_engine.py                                                    *)
(***************************************************************************)
Tetromino == {"I", "O", "T", "S", "Z", "J", "L"}

SHAPES ==
    [I |-> << <<0, 0>>, <<0, 1>>, <<0, 2>>, <<0, 3>> >>,
     O |-> << <<0, 0>>, <<0, 1>>, <<1, 0>>, <<1, 1>> >>,
     T |-> << <<0, 1>>, <<1, 0>>, <<1, 1>>, <<1, 2>> >>,
     S |-> << <<0, 1>>, <<0, 2>>, <<1, 0>>, <<1, 1>> >>,
     Z |-> << <<0, 0>>, <<0, 1>>, <<1, 1>>, <<1, 2>> >>,
     J |-> << <<0, 0>>, <<1, 0>>, <<1, 1>>, <<1, 2>> >>,
     L |-> << <<0, 2>>, <<1, 0>>, <<1, 1>>, <<1, 2>> >>]

\* TetrisEngine(rows, cols): the engine object is its two dimensions.
TetrisEngine(rows, cols) == [rows |-> rows, cols |-> cols]

EmptyRow(cols) == [c \in 1..cols |-> None]

new_game(rows, cols) ==
    [board            |-> [r \in 1..rows |-> EmptyRow(cols)],
     current_piece    |-> None,
     current_pos      |-> <<0, 3>>,
     current_rotation |-> 0,
     score            |-> 0,
     lines_cleared    |-> 0,
     game_over        |-> FALSE,
     move_count       |-> 0]

\* The event a no-op returns: Python None.
NoEvent == [action |-> None]

RECURSIVE RotateTimes(_, _)
RotateTimes(blocks, n) ==
    IF n = 0 THEN blocks
    ELSE RotateTimes([i \in 1..Len(blocks) |-> <<blocks[i][2], -blocks[i][1]>>],
                     n - 1)

get_piece_blocks(piece, rotation) == RotateTimes(SHAPES[piece], rotation)

\* Mutant of check_collision: only the bounds of the board are checked.
check_collision_bounds_only(eng, state) ==
    IF state.current_piece = None THEN FALSE
    ELSE LET blocks == get_piece_blocks(state.current_piece, state.current_rotation)
         IN \E i \in 1..Len(blocks) :
               LET row == state.current_pos[1] + blocks[i][1]
                   col == state.current_pos[2] + blocks[i][2]
               IN row < 0 \/ row >= eng.rows \/ col < 0 \/ col >= eng.cols

check_collision(eng, state) ==
    IF state.current_piece = None THEN FALSE
    ELSE LET blocks == get_piece_blocks(state.current_piece, state.current_rotation)
         IN \E i \in 1..Len(blocks) :
               LET row == state.current_pos[1] + blocks[i][1]
                   col == state.current_pos[2] + blocks[i][2]
               IN IF row < 0 \/ row >= eng.rows \/ col < 0 \/ col >= eng.cols
                  THEN TRUE
                  ELSE state.board[row + 1][col + 1] # None

\* spawn_piece without the collision check of lines 111-113: the flag is only
\* carried over.
spawn_piece_unchecked(eng, state, piece) ==
    LET new_state == [state EXCEPT !.current_piece = piece,
                                   !.current_pos = <<0, 3>>,
                                   !.current_rotation = 0]
    IN [state |-> new_state,
        event |-> [action    |-> "SPAWN_PIECE",
                   piece     |-> piece,
                   position  |-> new_state.current_pos,
                   game_over |-> new_state.game_over]]

spawn_piece(eng, state, piece) ==
    LET placed == [state EXCEPT !.current_piece = piece,
                                !.current_pos = <<0, 3>>,
                                !.current_rotation = 0]
        new_state == IF check_collision(eng, placed)
                     THEN [placed EXCEPT !.game_over = TRUE]
                     ELSE placed
    IN [state |-> new_state,
        event |-> [action    |-> "SPAWN_PIECE",
                   piece     |-> piece,
                   position  |-> new_state.current_pos,
                   game_over |-> new_state.game_over]]

\* The board with the piece's in-bounds cells written into it.
MergePiece(eng, state) ==
    LET blocks == get_piece_blocks(state.current_piece, state.current_rotation)
    IN [r \in 1..Len(state.board) |->
          [c \in 1..Len(state.board[r]) |->
             IF \E i \in 1..Len(blocks) :
                   /\ state.current_pos[1] + blocks[i][1] = r - 1
                   /\ state.current_pos[2] + blocks[i][2] = c - 1
                   /\ 0 <= r - 1 /\ r - 1 < eng.rows
                   /\ 0 <= c - 1 /\ c - 1 < eng.cols
             THEN state.current_piece
             ELSE state.board[r][c]]]

\* lines_to_clear: the 0-based indices of the full rows, ascending.
RECURSIVE FullRowsFrom(_, _, _)
FullRowsFrom(eng, board, row) ==
    IF row >= eng.rows THEN << >>
    ELSE (IF \A c \in 1..Len(board[row + 1]) : board[row + 1][c] # None
          THEN <<row>> ELSE << >>) \o FullRowsFrom(eng, board, row + 1)

Reverse(s) == [i \in 1..Len(s) |-> s[Len(s) + 1 - i]]

\* board.pop(line); board.insert(0, [None] * cols)
\* board.pop(line) without the insert of line 272.
PopInsert_pop_only(eng, board, line) ==
    SubSeq(board, 1, line) \o SubSeq(board, line + 2, Len(board))

PopInsert(eng, board, line) ==
    <<EmptyRow(eng.cols)>> \o SubSeq(board, 1, line) \o SubSeq(board, line + 2, Len(board))

\* for line in sorted(lines_to_clear, reverse=True): pop, insert
RECURSIVE ClearLines(_, _, _)
ClearLines(eng, board, lines) ==
    IF lines = << >> THEN board
    ELSE ClearLines(eng, PopInsert(eng, board, Head(lines)), Tail(lines))

\* Mutant of points: a four-row clear scored as four single rows.
points_flat(line_count) ==
    CASE line_count = 0 -> 0
      [] line_count = 1 -> 100
      [] line_count = 2 -> 300
      [] line_count = 3 -> 500
      [] line_count = 4 -> 400
      [] OTHER -> 0

\* The engine's table without the entry for three lines.
points_without_three(line_count) ==
    CASE line_count = 0 -> 0
      [] line_count = 1 -> 100
      [] line_count = 2 -> 300
      [] line_count = 4 -> 800
      [] OTHER -> 0

points(line_count) ==
    CASE line_count = 0 -> 0
      [] line_count = 1 -> 100
      [] line_count = 2 -> 300
      [] line_count = 3 -> 500
      [] line_count = 4 -> 800
      [] OTHER -> 0

lock_piece(eng, state) ==
    LET merged == MergePiece(eng, state)
        lines_to_clear == FullRowsFrom(eng, merged, 0)
        new_board == ClearLines(eng, merged, Reverse(lines_to_clear))
        line_count == Len(lines_to_clear)
        new_state == [board            |-> new_board,
                      current_piece    |-> None,
                      current_pos      |-> <<0, 3>>,
                      current_rotation |-> 0,
                      score            |-> state.score + points(line_count),
                      lines_cleared    |-> state.lines_cleared + line_count,
                      game_over        |-> state.game_over,
                      move_count       |-> state.move_count]
    IN [state |-> new_state,
        event |-> [action        |-> "PIECE_LOCKED",
                   piece         |-> state.current_piece,
                   position      |-> state.current_pos,
                   lines_cleared |-> line_count,
                   cleared_rows  |-> lines_to_clear,
                   points_earned |-> points(line_count),
                   total_score   |-> new_state.score]]

\* move without the collision check of lines 158-164 for sideways moves.
move_through_walls(eng, state, action) ==
    IF state.current_piece = None \/ state.game_over
    THEN [state |-> state, event |-> NoEvent]
    ELSE IF action \notin {"MOVE_LEFT", "MOVE_RIGHT", "MOVE_DOWN"}
    THEN [state |-> state, event |-> NoEvent]
    ELSE LET row == state.current_pos[1]
             col == state.current_pos[2]
             new_pos == CASE action = "MOVE_LEFT" -> <<row, col - 1>>
                          [] action = "MOVE_RIGHT" -> <<row, col + 1>>
                          [] action = "MOVE_DOWN" -> <<row + 1, col>>
             new_state == [state EXCEPT !.current_pos = new_pos,
                                        !.move_count = state.move_count + 1]
         IN IF action = "MOVE_DOWN" /\ check_collision(eng, new_state)
            THEN lock_piece(eng, state)
            ELSE [state |-> new_state,
                  event |-> [action      |-> action,
                             from        |-> state.current_pos,
                             to          |-> new_pos,
                             move_number |-> new_state.move_count]]

move(eng, state, action) ==
    IF state.current_piece = None \/ state.game_over
    THEN [state |-> state, event |-> NoEvent]
    ELSE IF action \notin {"MOVE_LEFT", "MOVE_RIGHT", "MOVE_DOWN"}
    THEN [state |-> state, event |-> NoEvent]
    ELSE LET row == state.current_pos[1]
             col == state.current_pos[2]
             new_pos == CASE action = "MOVE_LEFT" -> <<row, col - 1>>
                          [] action = "MOVE_RIGHT" -> <<row, col + 1>>
                          [] action = "MOVE_DOWN" -> <<row + 1, col>>
             new_state == [state EXCEPT !.current_pos = new_pos,
                                        !.move_count = state.move_count + 1]
         IN IF check_collision(eng, new_state)
            THEN (IF action = "MOVE_DOWN"
                  THEN lock_piece(eng, state)
                  ELSE [state |-> state, event |-> NoEvent])
            ELSE [state |-> new_state,
                  event |-> [action      |-> action,
                             from        |-> state.current_pos,
                             to          |-> new_pos,
                             move_number |-> new_state.move_count]]

\* Mutant of rotate: a rotation is not counted as a move.
rotate_uncounted(eng, state, clockwise) ==
    IF state.current_piece = None \/ state.game_over
    THEN [state |-> state, event |-> NoEvent]
    ELSE LET new_rotation ==
                 (state.current_rotation + (IF clockwise THEN 1 ELSE -1)) % 4
             new_state == [state EXCEPT !.current_rotation = new_rotation]
         IN IF check_collision(eng, new_state)
            THEN [state |-> state, event |-> NoEvent]
            ELSE [state |-> new_state,
                  event |-> [action        |-> IF clockwise THEN "ROTATE_CW"
                                               ELSE "ROTATE_CCW",
                             from_rotation |-> state.current_rotation,
                             to_rotation   |-> new_rotation,
                             move_number   |-> new_state.move_count]]

\* rotate that turns clockwise whatever the direction asked for.
rotate_one_way(eng, state, clockwise) ==
    IF state.current_piece = None \/ state.game_over
    THEN [state |-> state, event |-> NoEvent]
    ELSE LET new_rotation == (state.current_rotation + 1) % 4
             new_state == [state EXCEPT !.current_rotation = new_rotation,
                                        !.move_count = state.move_count + 1]
         IN IF check_collision(eng, new_state)
            THEN [state |-> state, event |-> NoEvent]
            ELSE [state |-> new_state,
                  event |-> [action        |-> IF clockwise THEN "ROTATE_CW"
                                               ELSE "ROTATE_CCW",
                             from_rotation |-> state.current_rotation,
                             to_rotation   |-> new_rotation,
                             move_number   |-> new_state.move_count]]

rotate(eng, state, clockwise) ==
    IF state.current_piece = None \/ state.game_over
    THEN [state |-> state, event |-> NoEvent]
    ELSE LET new_rotation ==
                 (state.current_rotation + (IF clockwise THEN 1 ELSE -1)) % 4
             new_state == [state EXCEPT !.current_rotation = new_rotation,
                                        !.move_count = state.move_count + 1]
         IN IF check_collision(eng, new_state)
            THEN [state |-> state, event |-> NoEvent]
            ELSE [state |-> new_state,
                  event |-> [action        |-> IF clockwise THEN "ROTATE_CW"
                                               ELSE "ROTATE_CCW",
                             from_rotation |-> state.current_rotation,
                             to_rotation   |-> new_rotation,
                             move_number   |-> new_state.move_count]]

\* Mutant of DropLoop: the step that collides is counted too.
RECURSIVE DropLoop_counts_last(_, _, _)
DropLoop_counts_last(eng, current_state, drop_distance) ==
    LET test_state ==
            [current_state EXCEPT !.current_pos =
                 <<current_state.current_pos[1] + 1, current_state.current_pos[2]>>]
    IN IF check_collision(eng, test_state)
       THEN [state |-> current_state, drop_distance |-> drop_distance + 1]
       ELSE DropLoop_counts_last(eng, test_state, drop_distance + 1)

\* The while loop of hard_drop: the resting state and the steps taken.
RECURSIVE DropLoop(_, _, _)
DropLoop(eng, current_state, drop_distance) ==
    LET test_state ==
            [current_state EXCEPT !.current_pos =
                 <<current_state.current_pos[1] + 1, current_state.current_pos[2]>>]
    IN IF check_collision(eng, test_state)
       THEN [state |-> current_state, drop_distance |-> drop_distance]
       ELSE DropLoop(eng, test_state, drop_distance + 1)

hard_drop(eng, state) ==
    IF state.current_piece = None \/ state.game_over
    THEN [state |-> state, event |-> NoEvent]
    ELSE LET dropped == DropLoop(eng, state, 0)
             locked == lock_piece(eng, dropped.state)
         IN [state |-> [locked.state EXCEPT
                            !.score = locked.state.score + dropped.drop_distance * 2],
             event |-> [action        |-> "HARD_DROP",
                        from          |-> state.current_pos,
                        to            |-> dropped.state.current_pos,
                        drop_distance |-> dropped.drop_distance,
                        bonus_points  |-> dropped.drop_distance * 2]]

(***************************************************************************)
(* src/game_policy_validator.py                                            *)
(***************************************************************************)
\* PolicyResult(approved, reason, penalty_points, warning).  A formatted
\* reason is the tuple of its text and the number put into it; reason None
\* is <<None>>.
PolicyResult(approved, reason, penalty_points, warning) ==
    [approved |-> approved, reason |-> reason,
     penalty_points |-> penalty_points, warning |-> warning]

\* GamePolicyValidator.__init__: the limits every validator starts with.
DefaultPolicies ==
    [max_moves_per_piece       |-> 50,
     max_consecutive_rotations |-> 10,
     max_same_action_streak    |-> 5,
     max_backtrack_moves       |-> 3,
     bonus_fraud_threshold     |-> 1000]

GamePolicyValidator(tenant_id) == [tenant_id |-> tenant_id, policies |-> DefaultPolicies]

\* The largest element of a non-empty set of integers.
Max(S) == CHOOSE x \in S : \A y \in S : y <= x

\* Mutant of count_moves_for_current_piece: the moves of the whole history
\* are counted, the spawns not looked at.
count_moves_of_all_pieces(history) ==
    Cardinality({i \in 1..Len(history) :
        Get(history[i], "action", None) \in
            {"MOVE_LEFT", "MOVE_RIGHT", "MOVE_DOWN", "ROTATE_CW", "ROTATE_CCW"}})

\* for event in reversed(history): break at SPAWN_PIECE, count the five
\* moves; the loop sees the events after the last SPAWN_PIECE.
count_moves_for_current_piece(history) ==
    LET spawns == {i \in 1..Len(history) :
                      Get(history[i], "action", None) = "SPAWN_PIECE"}
        first == IF spawns = {} THEN 1 ELSE Max(spawns) + 1
    IN Cardinality({i \in first..Len(history) :
           Get(history[i], "action", None) \in
               {"MOVE_LEFT", "MOVE_RIGHT", "MOVE_DOWN", "ROTATE_CW", "ROTATE_CCW"}})

\* Mutant of count_consecutive_actions: the newest event is not counted.
count_consecutive_actions_skips_newest(history, actions) ==
    LET others == {i \in 1..Len(history) :
                      Get(history[i], "action", None) \notin actions}
        count == IF others = {} THEN Len(history) ELSE Len(history) - Max(others)
    IN IF count > 0 THEN count - 1 ELSE 0

\* for event in reversed(history): count while the action is in `actions`,
\* break at the first event whose action is not.
count_consecutive_actions(history, actions) ==
    LET others == {i \in 1..Len(history) :
                      Get(history[i], "action", None) \notin actions}
    IN IF others = {} THEN Len(history) ELSE Len(history) - Max(others)

\* opposites.get(a) of _is_backtrack_move
opposites(a) ==
    CASE a = "MOVE_LEFT" -> "MOVE_RIGHT"
      [] a = "MOVE_RIGHT" -> "MOVE_LEFT"
      [] a = "ROTATE_CW" -> "ROTATE_CCW"
      [] a = "ROTATE_CCW" -> "ROTATE_CW"
      [] OTHER -> None

\* Mutant of is_backtrack_move: only the horizontal moves have an opposite.
is_backtrack_move_horizontal(action, history) ==
    IF history = << >> THEN FALSE
    ELSE LET last_action == Get(history[Len(history)], "action", None)
         IN /\ last_action \in {"MOVE_LEFT", "MOVE_RIGHT"}
            /\ opposites(last_action) = action

is_backtrack_move(action, history) ==
    IF history = << >> THEN FALSE
    ELSE opposites(Get(history[Len(history)], "action", None)) = action

\* opposites.get(a) of _count_backtrack_moves: the horizontal pairs only
move_opposites(a) ==
    CASE a = "MOVE_LEFT" -> "MOVE_RIGHT"
      [] a = "MOVE_RIGHT" -> "MOVE_LEFT"
      [] OTHER -> None

\* for i in range(1, min(len(history), 20)): history[-i-1] against history[-i]
count_backtrack_moves(history) ==
    LET n == Len(history)
    IN Cardinality({i \in 1..(Min(n, 20) - 1) :
           move_opposites(Get(history[n - i], "action", None))
               = Get(history[n - i + 1], "action", None)})

\* Mutant of get_recent_line_clears: every event that reports a clear.
get_all_line_clears(history, limit) ==
    SelectSeq(history, LAMBDA event : \/ Get(event, "action", None) = "LINE_CLEAR"
                                      \/ Get(event, "lines_cleared", 0) > 0)

\* the first `limit` events, newest first, that report a clear
RECURSIVE get_recent_line_clears(_, _)
get_recent_line_clears(history, limit) ==
    IF history = << >> \/ limit <= 0 THEN << >>
    ELSE LET event == history[Len(history)]
             rest == SubSeq(history, 1, Len(history) - 1)
         IN IF Get(event, "action", None) = "LINE_CLEAR"
               \/ Get(event, "lines_cleared", 0) > 0
            THEN <<event>> \o get_recent_line_clears(rest, limit - 1)
            ELSE get_recent_line_clears(rest, limit)

\* Mutant of validate_move: the backtrack check is made before the
\* rotation and streak checks.
validate_move_backtrack_first(validator, action, current_state, history) ==
    LET policies == validator.policies
        piece_moves == count_moves_for_current_piece(history)
        consecutive_rotations ==
            count_consecutive_actions(history, {"ROTATE_CW", "ROTATE_CCW"})
        streak == count_consecutive_actions(history, {action})
        backtrack_count == count_backtrack_moves(history)
    IN IF piece_moves >= policies.max_moves_per_piece
       THEN PolicyResult(FALSE, <<"Max moves per piece exceeded", piece_moves>>, 50, None)
       ELSE IF /\ is_backtrack_move(action, history)
               /\ backtrack_count >= policies.max_backtrack_moves
       THEN PolicyResult(FALSE, <<"Backtrack limit exceeded", backtrack_count>>, 15, None)
       ELSE IF /\ action \in {"ROTATE_CW", "ROTATE_CCW"}
               /\ consecutive_rotations >= policies.max_consecutive_rotations
       THEN PolicyResult(FALSE, <<"Rotation spam detected", consecutive_rotations>>,
                         20, None)
       ELSE IF /\ action \in {"MOVE_LEFT", "MOVE_RIGHT"}
               /\ streak >= policies.max_same_action_streak
       THEN PolicyResult(FALSE, <<"Action spam", action, streak>>, 10, None)
       ELSE PolicyResult(TRUE, <<None>>, 0, None)

validate_move(validator, action, current_state, history) ==
    LET policies == validator.policies
        piece_moves == count_moves_for_current_piece(history)
        consecutive_rotations ==
            count_consecutive_actions(history, {"ROTATE_CW", "ROTATE_CCW"})
        streak == count_consecutive_actions(history, {action})
        backtrack_count == count_backtrack_moves(history)
    IN IF piece_moves >= policies.max_moves_per_piece
       THEN PolicyResult(FALSE, <<"Max moves per piece exceeded", piece_moves>>, 50, None)
       ELSE IF /\ action \in {"ROTATE_CW", "ROTATE_CCW"}
               /\ consecutive_rotations >= policies.max_consecutive_rotations
       THEN PolicyResult(FALSE, <<"Rotation spam detected", consecutive_rotations>>,
                         20, None)
       ELSE IF /\ action \in {"MOVE_LEFT", "MOVE_RIGHT"}
               /\ streak >= policies.max_same_action_streak
       THEN PolicyResult(FALSE, <<"Action spam", action, streak>>, 10, None)
       ELSE IF /\ is_backtrack_move(action, history)
               /\ backtrack_count >= policies.max_backtrack_moves
       THEN PolicyResult(FALSE, <<"Backtrack limit exceeded", backtrack_count>>, 15, None)
       ELSE PolicyResult(TRUE, <<None>>, 0, None)

\* Mutant of expected_points: 100 points a line.
expected_points_per_line(lines_cleared) ==
    IF lines_cleared \in 0..4 THEN 100 * lines_cleared ELSE 0

expected_points(lines_cleared) ==
    CASE lines_cleared = 0 -> 0
      [] lines_cleared = 1 -> 100
      [] lines_cleared = 2 -> 300
      [] lines_cleared = 3 -> 500
      [] lines_cleared = 4 -> 800
      [] OTHER -> 0

RECURSIVE SumPoints(_)
SumPoints(events) ==
    IF events = << >> THEN 0
    ELSE Get(Head(events), "points_earned", 0) + SumPoints(Tail(events))

validate_line_clear(validator, lines_cleared, points_earned, history) ==
    LET recent_clears == get_recent_line_clears(history, 5)
    IN IF points_earned # expected_points(lines_cleared)
       THEN PolicyResult(FALSE,
                <<"Invalid scoring", lines_cleared, expected_points(lines_cleared),
                  points_earned>>,
                points_earned, None)
       ELSE IF /\ Len(recent_clears) >= 3
               /\ SumPoints(recent_clears) > validator.policies.bonus_fraud_threshold
       THEN PolicyResult(TRUE, <<None>>, 0, "Suspicious scoring pattern detected")
       ELSE PolicyResult(TRUE, <<None>>, 0, None)

\* TENANT_POLICIES: the limits of the three preset modes.
TENANT_POLICIES ==
    [arcade_mode |->
        [max_moves_per_piece       |-> 30,
         max_consecutive_rotations |-> 5,
         max_same_action_streak    |-> 3,
         max_backtrack_moves       |-> 2,
         bonus_fraud_threshold     |-> 500],
     casual_mode |->
        [max_moves_per_piece       |-> 100,
         max_consecutive_rotations |-> 20,
         max_same_action_streak    |-> 10,
         max_backtrack_moves       |-> 5,
         bonus_fraud_threshold     |-> 2000],
     competitive_mode |->
        [max_moves_per_piece       |-> 20,
         max_consecutive_rotations |-> 3,
         max_same_action_streak    |-> 2,
         max_backtrack_moves       |-> 0,
         bonus_fraud_threshold     |-> 300]]

\* get_policy_validator: a validator whose limits are those of the mode,
\* and those of arcade_mode for a mode that is not a preset.
get_policy_validator(tenant_id, mode) ==
    [GamePolicyValidator(tenant_id) EXCEPT
        !.policies = IF mode \in DOMAIN TENANT_POLICIES
                     THEN TENANT_POLICIES[mode]
                     ELSE TENANT_POLICIES["arcade_mode"]]

(***************************************************************************)
(* The event log (settlement-grade event store), which is not part of the  *)
(* sources: events are appended in order and never changed, and an append  *)
(* for an execution that already holds a FINALIZED event fails.            *)
(***************************************************************************)
Event(state, payload) == [state |-> state, payload |-> payload]

HasFinalized(log) == \E i \in 1..Len(log) : log[i].state = "FINALIZED"

\* Mutant of append_event_safe: a finalized execution still takes events.
append_event_unguarded(log, state, payload) ==
    [ok |-> TRUE, log |-> Append(log, Event(state, payload))]

\* append_event_safe: [ok, log]; ok = FALSE is the append raising.
append_event_safe(log, state, payload) ==
    IF HasFinalized(log)
    THEN [ok |-> FALSE, log |-> log]
    ELSE [ok |-> TRUE, log |-> Append(log, Event(state, payload))]

\* get_execution: the events of one execution, in append order.
get_execution(store, execution_id) == store[execution_id]

(***************************************************************************)
(* src/agents/tetris_agent.py                                              *)
(***************************************************************************)
TetrisAgent(tenant_id, mode) ==
    [tenant_id        |-> tenant_id,
     mode             |-> mode,
     engine           |-> TetrisEngine(AgentRows, AgentCols),
     policy_validator |-> GamePolicyValidator(tenant_id)]

\* Mutant of read_history: the events of every execution are read, the
\* execution id left out of the query.
read_history_all_executions(store, execution_id) ==
    LET one == get_execution(store, "game-1")
        two == get_execution(store, "game-2")
        history_events == one \o two
    IN [i \in 1..Len(history_events) |-> history_events[i].payload]

\* Step 1 of execute_action: the history of execution.execution_id, as the
\* list of its payloads.
read_history(store, execution_id) ==
    LET history_events == get_execution(store, execution_id)
    IN [i \in 1..Len(history_events) |-> history_events[i].payload]

\* What a call hands back: the execution's state, the log, how the call
\* ended ("returned" or "raised"), the PolicyResult and the event payload.
CallResult(state, log, outcome, policy_result, event_payload) ==
    [game_state |-> state, log |-> log, outcome |-> outcome,
     policy_result |-> policy_result, event_payload |-> event_payload]

NoResult == PolicyResult(FALSE, <<None>>, 0, None)

\* start_game with `piece` the piece random.choice picks.
start_game(agent, old_state, log, piece) ==
    LET spawned == spawn_piece(agent.engine, new_game(AgentRows, AgentCols), piece)
        appended == append_event_safe(log, "RUNNING",
                        [stage    |-> "game_start",
                         action   |-> spawned.event.action,
                         piece    |-> spawned.event.piece,
                         position |-> spawned.event.position,
                         mode     |-> agent.mode])
    IN IF ~appended.ok
       THEN CallResult(old_state, log, "raised", NoResult, NoEvent)
       ELSE CallResult(spawned.state, appended.log, "returned", NoResult, NoEvent)

\* Mutant of finalize_game: nothing is appended.
finalize_game_skipped(log, final_state) == [ok |-> TRUE, log |-> log]

finalize_game(log, final_state) ==
    append_event_safe(log, "FINALIZED",
        [stage         |-> "game_over",
         action        |-> "GAME_FINALIZED",
         final_score   |-> final_state.score,
         lines_cleared |-> final_state.lines_cleared,
         move_count    |-> final_state.move_count,
         sealed_at     |-> "2026-02-15T00:00:00Z"])

\* Step 3 of execute_action: the engine operation the action selects.
apply_game_logic(agent, state, action) ==
    IF action \in {"MOVE_LEFT", "MOVE_RIGHT", "MOVE_DOWN"}
    THEN move(agent.engine, state, action)
    ELSE IF action \in {"ROTATE_CW", "ROTATE_CCW"}
    THEN rotate(agent.engine, state, action = "ROTATE_CW")
    ELSE IF action = "HARD_DROP"
    THEN hard_drop(agent.engine, state)
    ELSE [state |-> state, event |-> [action |-> "UNKNOWN"]]

\* Steps 5 and 6 of execute_action: append the event, spawn after a lock,
\* finalize when the spawn collides, then update the execution.
commit_event(agent, state, log, new_state, event_payload, policy_result, piece) ==
    LET appended == append_event_safe(log, "RUNNING",
                        [stage |-> "game_action"] @@ event_payload)
    IN IF ~appended.ok
       THEN CallResult(state, log, "raised", policy_result, NoEvent)
       ELSE IF event_payload.action # "PIECE_LOCKED"
       THEN CallResult(new_state, appended.log, "returned", policy_result, event_payload)
       ELSE LET spawned == spawn_piece(agent.engine, new_state, piece)
                appended2 == append_event_safe(appended.log, "RUNNING",
                                 [stage    |-> "spawn_piece",
                                  action   |-> spawned.event.action,
                                  piece    |-> spawned.event.piece,
                                  position |-> spawned.event.position])
                finalized == finalize_game(appended2.log, spawned.state)
            IN IF ~appended2.ok
               THEN CallResult(state, appended.log, "raised", policy_result, NoEvent)
               ELSE IF ~spawned.state.game_over
               THEN CallResult(spawned.state, appended2.log, "returned",
                               policy_result, event_payload)
               ELSE IF ~finalized.ok
               THEN CallResult(state, appended2.log, "raised", policy_result, NoEvent)
               ELSE CallResult(spawned.state, finalized.log, "returned",
                               policy_result, event_payload)

\* Mutant of policy_violation: the FAILED event is appended and the session
\* is left running.
policy_violation_not_terminal(state, log, action, policy_result) ==
    LET rejected == append_event_safe(log, "FAILED",
                        [stage          |-> "policy_violation",
                         action         |-> action,
                         reason         |-> policy_result.reason,
                         penalty_points |-> policy_result.penalty_points])
    IN IF ~rejected.ok
       THEN CallResult(state, log, "raised", policy_result, NoEvent)
       ELSE CallResult(state, rejected.log, "returned", policy_result, NoEvent)

\* The rejection branch of step 2 of execute_action.
policy_violation(state, log, action, policy_result) ==
    LET rejected == append_event_safe(log, "FAILED",
                        [stage          |-> "policy_violation",
                         action         |-> action,
                         reason         |-> policy_result.reason,
                         penalty_points |-> policy_result.penalty_points])
    IN IF ~rejected.ok
       THEN CallResult(state, log, "raised", policy_result, NoEvent)
       ELSE CallResult([state EXCEPT !.game_over = TRUE], rejected.log,
                       "returned", policy_result, NoEvent)

\* Mutant of invalid_move: the refused move is written to the log.
invalid_move_logged(state, log) ==
    CallResult(state,
               append_event_safe(log, "RUNNING",
                                 [stage |-> "invalid_move", action |-> "INVALID_MOVE"]).log,
               "returned",
               PolicyResult(FALSE, <<"Invalid move (collision)">>, 0, None), NoEvent)

\* The engine returned no event: the execution is handed back as it was,
\* unapproved, and nothing is appended.
invalid_move(state, log) ==
    CallResult(state, log, "returned",
               PolicyResult(FALSE, <<"Invalid move (collision)">>, 0, None), NoEvent)

\* execute_action with `history` the payloads step 1 read, `log` the log
\* the appends go to and `piece` the piece random.choice picks if it spawns.
execute_action(agent, state, history, log, action, piece) ==
    LET current_state_dict == [score         |-> state.score,
                               lines_cleared |-> state.lines_cleared,
                               move_count    |-> state.move_count]
        policy_result == validate_move(agent.policy_validator, action,
                                       current_state_dict, history)
        applied == apply_game_logic(agent, state, action)
        line_clear_result ==
            validate_line_clear(agent.policy_validator,
                                Get(applied.event, "lines_cleared", 0),
                                Get(applied.event, "points_earned", 0), history)
        fraud == append_event_safe(log, "FAILED",
                     [stage          |-> "fraud_detected",
                      action         |-> "LINE_CLEAR_FRAUD",
                      reason         |-> line_clear_result.reason,
                      revoked_points |-> Get(applied.event, "points_earned", 0)])
    IN IF ~policy_result.approved
       THEN policy_violation(state, log, action, policy_result)
       ELSE IF applied.event.action = "UNKNOWN"
       THEN CallResult(state, log, "returned",
                       PolicyResult(FALSE, <<"Unknown action">>, 0, None), NoEvent)
       ELSE IF applied.event = NoEvent
       THEN invalid_move(state, log)
       ELSE IF applied.event.action = "PIECE_LOCKED" /\ ~line_clear_result.approved
       THEN (IF ~fraud.ok
             THEN CallResult(state, log, "raised", line_clear_result, NoEvent)
             ELSE CallResult([state EXCEPT !.game_over = TRUE], fraud.log,
                             "returned", line_clear_result, NoEvent))
       ELSE commit_event(agent, state, log, applied.state, applied.event,
                         policy_result, piece)

(***************************************************************************)
(* The orchestrated system: one agent, its executions and their logs.      *)
(***************************************************************************)
TetrisAction == {"SPAWN_PIECE", "MOVE_LEFT", "MOVE_RIGHT", "MOVE_DOWN", "ROTATE_CW",
                 "ROTATE_CCW", "HARD_DROP", "LINE_CLEAR", "GAME_OVER"}

PlayerActions == {"MOVE_LEFT", "MOVE_RIGHT", "MOVE_DOWN", "ROTATE_CW", "ROTATE_CCW",
                  "HARD_DROP"}

ExecutionIds == {"game-1", "game-2"}

Agent == TetrisAgent("player-001", "arcade_mode")

NoCall == [op |-> "none", execution_id |-> None, action |-> None, outcome |-> None,
           policy_result |-> NoResult, event_payload |-> NoEvent]

Call(op, eid, action, r) ==
    [op |-> op, execution_id |-> eid, action |-> action, outcome |-> r.outcome,
     policy_result |-> r.policy_result, event_payload |-> r.event_payload]

NoEngineResult == [op |-> "none", action |-> None,
                   state |-> new_game(EngRows, EngCols), event |-> NoEvent]

\* No validator call was made; no execute_action is suspended.
NoValidatorCall == [op |-> "none", result |-> NoResult]

NoInflight == << >>

OrchestratorInit ==
    /\ game_state = [e \in ExecutionIds |-> new_game(AgentRows, AgentCols)]
    /\ started = {}
    /\ event_store = [e \in ExecutionIds |-> << >>]
    /\ last = NoCall
    /\ inflight = NoInflight

Init ==
    /\ OrchestratorInit
    /\ eng_state = new_game(EngRows, EngCols)
    /\ eng_result = NoEngineResult
    /\ val_call = NoValidatorCall

\* The model stops calling once the log holds MaxEvents events; a terminal
\* session may still be called until its log holds MaxLog events.
CallAllowed(eid) ==
    \/ Len(event_store[eid]) < MaxEvents
    \/ (eid \in started /\ game_state[eid].game_over /\ Len(event_store[eid]) < MaxLog)

\* list(Tetromino), in the order of the enumeration, and the pieces that
\* random.choice is let to return: the first MaxPieces of the list.
TetrominoList == <<"I", "O", "T", "S", "Z", "J", "L">>

PieceChoices == {TetrominoList[i] : i \in 1..Min(MaxPieces, Len(TetrominoList))}

\* Only a MOVE_DOWN can return a PIECE_LOCKED event, so only then does the
\* call reach random.choice; any other call is given one fixed piece.
SpawnChoices(action) == IF action = "MOVE_DOWN" THEN PieceChoices ELSE {"I"}

\* Mutant of set_game_state: one execution object held for every session.
set_game_state_shared(games, execution_id, state) == [e \in DOMAIN games |-> state]

\* active_games[game_id] = execution, and execution.game_state = new_state on
\* the execution looked up by its game id: the state of that session alone.
set_game_state(games, execution_id, state) == [games EXCEPT ![execution_id] = state]

\* start_game is called for an execution id that has no game yet, or whose
\* game is over (the id is started again).
StartGame(eid) ==
    /\ eid \notin started \/ (game_state[eid].game_over /\ CallAllowed(eid))
    /\ \E piece \in PieceChoices :
         \E r \in {start_game(Agent, game_state[eid], event_store[eid], piece)} :
            /\ game_state' = set_game_state(game_state, eid, r.game_state)
            /\ event_store' = [event_store EXCEPT ![eid] = r.log]
            /\ started' = IF r.outcome = "returned" THEN started \cup {eid} ELSE started
            /\ last' = Call("start_game", eid, None, r)
    /\ UNCHANGED <<eng_state, eng_result, val_call, inflight>>

ExecuteAction(eid) ==
    /\ eid \in started
    /\ CallAllowed(eid)
    /\ \E action \in PlayerActions : \E piece \in SpawnChoices(action) :
         \E r \in {execute_action(Agent, game_state[eid], read_history(event_store, eid),
                                  event_store[eid], action, piece)} :
            /\ game_state' = set_game_state(game_state, eid, r.game_state)
            /\ event_store' = [event_store EXCEPT ![eid] = r.log]
            /\ last' = Call("execute_action", eid, action, r)
    /\ UNCHANGED <<started, eng_state, eng_result, val_call, inflight>>

Next ==
    \/ StartGame("game-1")
    \/ ExecuteAction("game-1")

Spec == Init /\ [][Next]_vars

(***************************************************************************)
(* The engine on its own: every operation applied once to every state of   *)
(* a family of boards, pieces, rotations and positions.                    *)
(***************************************************************************)
Engine == TetrisEngine(EngRows, EngCols)

\* Rows of the family: full, full but for column 0, only the last column.
FullRow == [c \in 1..EngCols |-> "Z"]
HoleRow == [c \in 1..EngCols |-> IF c = 1 THEN None ELSE "S"]
MarkRow == [c \in 1..EngCols |-> IF c = EngCols THEN "L" ELSE None]

Repeat(row, n) == [i \in 1..n |-> row]

\* Top-down: empty rows, then `holes` rows with a hole, then `full` full
\* rows at the bottom; with mark > 0, a marked row put in as the mark-th row
\* from the bottom.
StackBoard(full, holes, mark) ==
    LET stack == Repeat(HoleRow, holes) \o Repeat(FullRow, full)
        n == Len(stack)
        marked == IF mark = 0 THEN stack
                  ELSE SubSeq(stack, 1, n + 1 - mark) \o <<MarkRow>>
                       \o SubSeq(stack, n + 2 - mark, n)
    IN Repeat(EmptyRow(EngCols), EngRows - Len(marked)) \o marked

StackShapes ==
    {t \in (0..MaxFull) \X (0..MaxHoles) \X (0..EngRows) :
        /\ t[3] <= t[1] + t[2] + 1
        /\ t[1] + t[2] + (IF t[3] > 0 THEN 1 ELSE 0) <= EngRows}

EngineBoards == {StackBoard(t[1], t[2], t[3]) : t \in StackShapes}

EngineInputs ==
    {[board            |-> b,
      current_piece    |-> p,
      current_pos      |-> <<r, c>>,
      current_rotation |-> rot,
      score            |-> 340,
      lines_cleared    |-> 3,
      game_over        |-> FALSE,
      move_count       |-> 12] :
        b \in EngineBoards,
        p \in Tetromino, r \in 0..(EngRows - 1), c \in 0..MaxCol, rot \in 0..3}
    \cup
    {[new_game(EngRows, EngCols) EXCEPT !.current_piece = p, !.game_over = g] :
        p \in {None, "O"}, g \in BOOLEAN}

EngineInit ==
    /\ OrchestratorInit
    /\ eng_state \in EngineInputs
    /\ eng_result = NoEngineResult
    /\ val_call = NoValidatorCall

EngineResult(op, action, r) ==
    [op |-> op, action |-> action, state |-> r.state, event |-> r.event]

EngineMove ==
    /\ eng_result.op = "none"
    /\ \E action \in {"MOVE_LEFT", "MOVE_RIGHT", "MOVE_DOWN"} :
         eng_result' = EngineResult("move", action, move(Engine, eng_state, action))
    /\ UNCHANGED <<game_state, started, event_store, last, eng_state, val_call, inflight>>

EngineRotate ==
    /\ eng_result.op = "none"
    /\ \E clockwise \in BOOLEAN :
         eng_result' = EngineResult("rotate",
                                    IF clockwise THEN "ROTATE_CW" ELSE "ROTATE_CCW",
                                    rotate(Engine, eng_state, clockwise))
    /\ UNCHANGED <<game_state, started, event_store, last, eng_state, val_call, inflight>>

EngineHardDrop ==
    /\ eng_result.op = "none"
    /\ eng_result' = EngineResult("hard_drop", "HARD_DROP", hard_drop(Engine, eng_state))
    /\ UNCHANGED <<game_state, started, event_store, last, eng_state, val_call, inflight>>

EngineNext == EngineMove \/ EngineRotate \/ EngineHardDrop

SpecEngine == EngineInit /\ [][EngineNext]_vars

\* The same, from the boards a game without a line-clear fault shows
\* between two locks: no row full, the piece inside the board and free.
EnginePlayInit ==
    /\ EngineInit
    /\ \A r \in 1..EngRows : \E c \in 1..EngCols : eng_state.board[r][c] = None
    /\ eng_state.current_piece # None
    /\ ~check_collision(Engine, eng_state)

SpecEnginePlay == EnginePlayInit /\ [][EngineNext]_vars

(***************************************************************************)
(* Claims about the engine, checked under SpecEngine.                      *)
(***************************************************************************)
\* Whether the piece of state s, moved j rows down, collides.
CollidesBelow(s, j) ==
    check_collision(Engine,
        [s EXCEPT !.current_pos = <<s.current_pos[1] + j, s.current_pos[2]>>])

\* The number d of downward steps with the piece free at +1..+d and
\* colliding at +d+1.
DropDistance(s) ==
    CHOOSE d \in 0..EngRows :
        /\ \A j \in 1..d : ~CollidesBelow(s, j)
        /\ CollidesBelow(s, d + 1)

\* The engine result is a lock: a colliding MOVE_DOWN or a hard drop.
LockedByMove == eng_result.op = "move" /\ eng_result.event.action = "PIECE_LOCKED"
LockedByDrop == eng_result.op = "hard_drop" /\ eng_result.event.action = "HARD_DROP"

\* Where the piece is when it is locked.
LockPosition ==
    IF LockedByDrop
    THEN <<eng_state.current_pos[1] + DropDistance(eng_state), eng_state.current_pos[2]>>
    ELSE eng_state.current_pos

PieceCells(s, pos) ==
    LET blocks == get_piece_blocks(s.current_piece, s.current_rotation)
    IN {<<pos[1] + blocks[i][1], pos[2] + blocks[i][2]>> : i \in 1..Len(blocks)}

\* The rows of the board of s after the piece at pos is written into it.
MergedRows(s, pos) ==
    [r \in 1..EngRows |->
        [c \in 1..EngCols |->
            IF <<r - 1, c - 1>> \in PieceCells(s, pos)
            THEN s.current_piece ELSE s.board[r][c]]]

RowIsFull(row) == \A c \in 1..Len(row) : row[c] # None
RowIsNotFull(row) == ~RowIsFull(row)

\* k: how many rows are full once the piece is merged.
FullRowCount(s, pos) ==
    Cardinality({r \in 1..EngRows : RowIsFull(MergedRows(s, pos)[r])})

\* The merged board with its full rows deleted, the others kept in order,
\* and as many empty rows put on top.
ClearedBoard(s, pos) ==
    Repeat(EmptyRow(EngCols), FullRowCount(s, pos))
        \o SelectSeq(MergedRows(s, pos), RowIsNotFull)

ScoreTable(k) ==
    IF k = 1 THEN 100 ELSE IF k = 2 THEN 300 ELSE IF k = 3 THEN 500
    ELSE IF k = 4 THEN 800 ELSE 0

\* C1: after a lock (a colliding MOVE_DOWN or a hard drop) that makes k rows
\* full, the board is the merged board with exactly those k rows deleted,
\* k empty rows on top, and every other row kept in its original order.
C1_LockDeletesExactlyTheFullRows ==
    (LockedByMove \/ LockedByDrop)
        => eng_result.state.board = ClearedBoard(eng_state, LockPosition)

\* C1 restricted to locks that fill at most one row.
C1_HoldsUpToOneRow ==
    ((LockedByMove \/ LockedByDrop) /\ FullRowCount(eng_state, LockPosition) <= 1)
        => eng_result.state.board = ClearedBoard(eng_state, LockPosition)

\* C2: a lock that makes k rows full adds exactly T[k] to the score (0 for
\* k > 4) and k to lines_cleared; the lock event reports lines_cleared = k,
\* points_earned = T[k] and total_score = the new score.  (Under a hard drop
\* the lock's score is the final score less the drop bonus.)
C2_LockScoresByTable ==
    LET k == FullRowCount(eng_state, LockPosition)
    IN /\ LockedByMove =>
            /\ eng_result.state.score = eng_state.score + ScoreTable(k)
            /\ eng_result.state.lines_cleared = eng_state.lines_cleared + k
            /\ eng_result.event.lines_cleared = k
            /\ eng_result.event.points_earned = ScoreTable(k)
            /\ eng_result.event.total_score = eng_result.state.score
       /\ LockedByDrop =>
            /\ eng_result.state.score - 2 * DropDistance(eng_state)
                   = eng_state.score + ScoreTable(k)
            /\ eng_result.state.lines_cleared = eng_state.lines_cleared + k

\* Witness of C2: a colliding MOVE_DOWN locked a piece that filled four rows.
C2_Witness ==
    /\ LockedByMove
    /\ FullRowCount(eng_state, LockPosition) = 4
    /\ eng_result.state.score = eng_state.score + 800

\* More than four rows full after one lock (the table's default).
C2_MoreThanFourRows ==
    LockedByMove /\ FullRowCount(eng_state, LockPosition) > 4

\* C3: a hard drop on a live state with a piece reports as drop_distance the
\* number d of free downward steps, locks the piece at row + d in the same
\* column and rotation, reports bonus_points = 2 * d, and leaves the score
\* at the old score plus the lock's line-clear points plus 2 * d.
C3_HardDropDistanceAndBonus ==
    (eng_result.op = "hard_drop" /\ eng_state.current_piece # None
        /\ ~eng_state.game_over)
    => LET d == DropDistance(eng_state)
           resting == [eng_state EXCEPT !.current_pos =
                          <<eng_state.current_pos[1] + d, eng_state.current_pos[2]>>]
           locked == lock_piece(Engine, resting)
       IN /\ eng_result.event.action = "HARD_DROP"
          /\ eng_result.event.drop_distance = d
          /\ eng_result.event.from = eng_state.current_pos
          /\ eng_result.event.to = resting.current_pos
          /\ eng_result.event.bonus_points = 2 * d
          /\ eng_result.state.board = locked.state.board
          /\ eng_result.state.score
                 = eng_state.score + locked.event.points_earned + 2 * d
          /\ eng_result.state.score
                 = eng_state.score
                   + ScoreTable(FullRowCount(eng_state, resting.current_pos)) + 2 * d
          /\ eng_result.state.current_piece = None

\* Witness of C3: a hard drop fell three rows and its lock cleared a line.
C3_Witness ==
    /\ LockedByDrop
    /\ eng_result.event.drop_distance = 3
    /\ eng_result.event.bonus_points = 6
    /\ eng_result.state.lines_cleared = eng_state.lines_cleared + 1

(***************************************************************************)
(* Claims about the orchestrator, checked under Spec on execution game-1.  *)
(***************************************************************************)
SessionLog == event_store["game-1"]
Session == game_state["game-1"]

\* The last call was an execute_action that returned an approved result.
ReturnedApproved ==
    /\ last.op = "execute_action"
    /\ last.outcome = "returned"
    /\ last.policy_result.approved

\* C4: a call whose transition locks a piece (a colliding MOVE_DOWN or a
\* HARD_DROP) appends the next piece's spawn event directly after the
\* transition's event, so when it returns approved and the session is not
\* terminal the session has an active piece.
C4_LockIsFollowedBySpawn ==
    (ReturnedApproved /\ last.event_payload.action \in {"PIECE_LOCKED", "HARD_DROP"})
    => /\ \E i \in 1..(Len(SessionLog) - 1) :
            /\ SessionLog[i].payload.action = last.event_payload.action
            /\ SessionLog[i].payload.stage = "game_action"
            /\ SessionLog[i + 1].payload.action = "SPAWN_PIECE"
            /\ \A j \in (i + 2)..Len(SessionLog) : SessionLog[j].state = "FINALIZED"
       /\ ~Session.game_over => Session.current_piece # None

\* C5: a FINALIZED event occurs at most once in a session's log and, when
\* present, is the log's last event.
C5_FinalizedOnceAndLast ==
    \A i \in 1..Len(SessionLog) :
        SessionLog[i].state = "FINALIZED" => i = Len(SessionLog)

\* Witness of C5: the log is finalized and an execute_action was called on
\* the finalized session.
C5_Witness ==
    /\ HasFinalized(SessionLog)
    /\ last.op = "execute_action"
    /\ last.event_payload = NoEvent

\* A start_game on a finalized execution was refused by the log.
C5_StartRefused ==
    HasFinalized(SessionLog) /\ last.op = "start_game" /\ last.outcome = "raised"

\* C6: once a FAILED event is in the log, no execute_action appends another
\* event: what follows a FAILED event, if anything, is the event of a new
\* start_game, so the tags never go FAILED -> FAILED or FAILED -> RUNNING
\* within a session.
C6_NothingFollowsFailed ==
    \A i \in 1..(Len(SessionLog) - 1) :
        SessionLog[i].state = "FAILED" => SessionLog[i + 1].payload.stage = "game_start"

\* What validate_move answers to the call that `last'` records, on the
\* state and the log before the call.
CalledValidation ==
    validate_move(Agent.policy_validator, last'.action,
                  [score |-> Session.score, lines_cleared |-> Session.lines_cleared,
                   move_count |-> Session.move_count],
                  read_history(event_store, "game-1"))

\* C7: when validate_move rejects the action, execute_action appends exactly
\* one event, tagged FAILED and carrying the action, the reason and the
\* penalty; it marks the session terminal and changes nothing else of the
\* session state; it returns unapproved with no event payload.
C7_RejectionAppendsOneFailedEvent ==
    [][(last'.op = "execute_action" /\ ~CalledValidation.approved)
        => /\ event_store'["game-1"] =
                 Append(SessionLog,
                        Event("FAILED",
                              [stage          |-> "policy_violation",
                               action         |-> last'.action,
                               reason         |-> CalledValidation.reason,
                               penalty_points |-> CalledValidation.penalty_points]))
           /\ game_state'["game-1"] = [Session EXCEPT !.game_over = TRUE]
           /\ last'.outcome = "returned"
           /\ last'.policy_result = CalledValidation
           /\ last'.event_payload = NoEvent]_vars

\* Witness of C7: a running session had its action rejected by the policy.
C7_Witness ==
    /\ last.op = "execute_action"
    /\ ~last.policy_result.approved
    /\ last.policy_result.penalty_points = 15
    /\ SessionLog[Len(SessionLog)].state = "FAILED"
    /\ SessionLog[Len(SessionLog)].payload.stage = "policy_violation"
    /\ SessionLog[Len(SessionLog) - 1].state = "RUNNING"
    /\ Session.game_over

\* What the engine answers to the call that `last'` records.
CalledEngine == apply_game_logic(Agent, Session, last'.action)

\* C8: when the policy approves and the engine returns a no-op, the call
\* appends no event, leaves the whole session state unchanged and returns
\* unapproved.
C8_NoOpLeavesSessionAndLog ==
    [][(last'.op = "execute_action" /\ CalledValidation.approved
            /\ CalledEngine.event = NoEvent)
        => /\ event_store' = event_store
           /\ game_state' = game_state
           /\ last'.outcome = "returned"
           /\ ~last'.policy_result.approved
           /\ last'.event_payload = NoEvent]_vars

\* Witness of C8: a live session with a piece had a move or rotation refused
\* by the engine, after an accepted move.
C8_Witness ==
    /\ last.op = "execute_action"
    /\ last.outcome = "returned"
    /\ last.policy_result.reason = <<"Invalid move (collision)">>
    /\ ~Session.game_over
    /\ Session.current_piece # None
    /\ Session.move_count > 0

\* The events of accepted moves and rotations since the last start_game.
RECURSIVE MovesSinceStart(_)
MovesSinceStart(log) ==
    IF log = << >> THEN << >>
    ELSE LET e == log[Len(log)]
         IN IF e.payload.stage = "game_start" THEN << >>
            ELSE MovesSinceStart(SubSeq(log, 1, Len(log) - 1))
                 \o (IF /\ e.payload.stage = "game_action"
                        /\ e.payload.action \in {"MOVE_LEFT", "MOVE_RIGHT", "MOVE_DOWN",
                                                 "ROTATE_CW", "ROTATE_CCW"}
                     THEN <<e.payload>> ELSE << >>)

\* C9: every accepted move or rotation adds exactly 1 to move_count and
\* records the new value as its move_number, and nothing else changes
\* move_count: after n such events move_count is n and the i-th of them
\* carries move_number i.
C9_MoveCountCountsAcceptedMoves ==
    "game-1" \in started =>
        LET moves == MovesSinceStart(SessionLog)
        IN /\ Session.move_count = Len(moves)
           /\ \A i \in 1..Len(moves) : moves[i].move_number = i

\* Witness of C9: three moves counted, a rotation among them, and then a
\* no-op.
C9_Witness ==
    /\ Session.move_count = 3
    /\ \E i \in 1..Len(SessionLog) : SessionLog[i].payload.action = "ROTATE_CW"
    /\ last.op = "execute_action"
    /\ last.event_payload = NoEvent
    /\ last.policy_result.reason = <<"Invalid move (collision)">>

(***************************************************************************)
(* Replay: two executions of the agent, started with the same piece and    *)
(* given the same actions and the same spawned pieces, step by step.       *)
(***************************************************************************)
ReplayStart ==
    /\ started = {}
    /\ \E piece \in PieceChoices :
         \E r1 \in {start_game(Agent, game_state["game-1"], event_store["game-1"], piece)},
            r2 \in {start_game(Agent, game_state["game-2"], event_store["game-2"], piece)} :
            /\ game_state' = [game_state EXCEPT !["game-1"] = r1.game_state,
                                                !["game-2"] = r2.game_state]
            /\ event_store' = [event_store EXCEPT !["game-1"] = r1.log,
                                                  !["game-2"] = r2.log]
            /\ started' = {"game-1", "game-2"}
            /\ last' = Call("start_game", "game-2", None, r2)
    /\ UNCHANGED <<eng_state, eng_result, val_call, inflight>>

\* One action on game-1, then the same action with the same piece on game-2.
ReplayAction ==
    /\ started = {"game-1", "game-2"}
    /\ CallAllowed("game-1")
    /\ \E action \in PlayerActions : \E piece \in SpawnChoices(action) :
         \E r1 \in {execute_action(Agent, game_state["game-1"],
                                   read_history(event_store, "game-1"),
                                   event_store["game-1"], action, piece)} :
         \E store1 \in {[event_store EXCEPT !["game-1"] = r1.log]} :
         \E r2 \in {execute_action(Agent, game_state["game-2"],
                                   read_history(store1, "game-2"),
                                   store1["game-2"], action, piece)} :
            /\ game_state' = [game_state EXCEPT !["game-1"] = r1.game_state,
                                                !["game-2"] = r2.game_state]
            /\ event_store' = [store1 EXCEPT !["game-2"] = r2.log]
            /\ last' = Call("execute_action", "game-2", action, r2)
    /\ UNCHANGED <<started, eng_state, eng_result, val_call, inflight>>

ReplayNext == ReplayStart \/ ReplayAction

SpecReplay == Init /\ [][ReplayNext]_vars

ModeValidation ==
    validate_move(get_policy_validator(Agent.tenant_id, Agent.mode), last'.action,
                  [score |-> Session.score, lines_cleared |-> Session.lines_cleared,
                   move_count |-> Session.move_count],
                  read_history(event_store, "game-1"))

\* C11: every execute_action of a session is validated against the five
\* limits of the session's mode: the call is rejected by policy, a FAILED
\* event appended, whenever the mode's limits reject the action; so in an
\* arcade-mode session a MOVE_LEFT after three accepted MOVE_LEFT is rejected.
C11_ValidatedAgainstModeLimits ==
    [][(last'.op = "execute_action" /\ ~Session.game_over /\ ~ModeValidation.approved)
        => /\ ~last'.policy_result.approved
           /\ last'.policy_result.penalty_points = ModeValidation.penalty_points
           /\ Len(event_store'["game-1"]) = Len(SessionLog) + 1
           /\ event_store'["game-1"][Len(SessionLog) + 1].state = "FAILED"]_vars

(***************************************************************************)
(* The validator on its own: validate_move and validate_line_clear applied *)
(* once to every call of a family of validators, actions and histories.    *)
(***************************************************************************)
\* The validators: one per preset mode, and the one the constructor gives.
ValidatorModes == DOMAIN TENANT_POLICIES \cup {None}

ValidatorOf(mode) ==
    IF mode = None THEN GamePolicyValidator("player-001")
    ELSE get_policy_validator("player-001", mode)

\* The actions an event payload of a history can carry.
HistoryActions == {"SPAWN_PIECE", "MOVE_LEFT", "MOVE_RIGHT", "MOVE_DOWN", "ROTATE_CW",
                   "ROTATE_CCW", "HARD_DROP"}

RECURSIVE SeqsUpTo(_, _)
SeqsUpTo(S, n) ==
    IF n = 0 THEN {<< >>}
    ELSE LET shorter == SeqsUpTo(S, n - 1)
         IN shorter \cup {Append(q, x) : q \in shorter, x \in S}

\* A history: a spawn or nothing, a run of one action, then any short tail.
\* The run is up to MaxPad long, or as long as the validator's
\* max_moves_per_piece, or one shorter.
PadLengths(mode) ==
    (0..MaxPad) \cup {ValidatorOf(mode).policies.max_moves_per_piece - 1,
                      ValidatorOf(mode).policies.max_moves_per_piece}

MoveHistory(a, n, tail) == [i \in 1..n |-> [action |-> a]] \o tail

HistoryTails == SeqsUpTo({[action |-> x] : x \in HistoryActions}, MaxTail)

\* A lock event of a history, as the orchestrator logs it.
LockPayload(lines, pts) ==
    [stage |-> "game_action", action |-> "PIECE_LOCKED", lines_cleared |-> lines,
     points_earned |-> pts]

LineClearHistories ==
    SeqsUpTo({LockPayload(0, 0), LockPayload(1, 100), LockPayload(4, 800)}, MaxClears)

\* Histories with more clears than validate_line_clear looks back at: a
\* four-row clear, then up to MaxRecent single-row clears.
PaddedClearHistories ==
    {<<LockPayload(4, 800)>> \o [i \in 1..n |-> LockPayload(1, 100)] : n \in 0..MaxRecent}

SubmittedPoints == {0, 100, 300, 500, 750, 800}

MoveCall(m, a, h) ==
    [op |-> "none", kind |-> "move", mode |-> m, action |-> a, history |-> h,
     result |-> NoResult]

LineClearCall(m, n, pts, h) ==
    [op |-> "none", kind |-> "line_clear", mode |-> m, lines_cleared |-> n,
     points_earned |-> pts, history |-> h, result |-> NoResult]

ValidatorInit ==
    /\ OrchestratorInit
    /\ eng_state = new_game(EngRows, EngCols)
    /\ eng_result = NoEngineResult
    /\ \E m \in ValidatorModes :
         \/ \E a \in PlayerActions, pad \in {"MOVE_LEFT", "ROTATE_CW"},
               n \in PadLengths(m), tail \in HistoryTails :
               val_call = MoveCall(m, a, MoveHistory(pad, n, tail))
         \/ \E n \in 0..MaxLines, pts \in SubmittedPoints, h \in LineClearHistories \cup PaddedClearHistories :
               val_call = LineClearCall(m, n, pts, h)

ValidateMove ==
    /\ val_call.op = "none"
    /\ val_call.kind = "move"
    /\ val_call' = [val_call EXCEPT
           !.op = "validate_move",
           !.result = validate_move(ValidatorOf(val_call.mode), val_call.action,
                                    [score |-> 0, lines_cleared |-> 0, move_count |-> 0],
                                    val_call.history)]
    /\ UNCHANGED <<game_state, started, event_store, last, eng_state, eng_result, inflight>>

ValidateLineClear ==
    /\ val_call.op = "none"
    /\ val_call.kind = "line_clear"
    /\ val_call' = [val_call EXCEPT
           !.op = "validate_line_clear",
           !.result = validate_line_clear(ValidatorOf(val_call.mode),
                                          val_call.lines_cleared,
                                          val_call.points_earned, val_call.history)]
    /\ UNCHANGED <<game_state, started, event_store, last, eng_state, eng_result, inflight>>

ValidatorNext == ValidateMove \/ ValidateLineClear

SpecValidator == ValidatorInit /\ [][ValidatorNext]_vars

\* The length of the trailing run of the called action in the history of
\* the call, and the number of moves made since the last spawn.
TrailingRun ==
    LET h == val_call.history
        n == Len(h)
    IN CHOOSE k \in 0..n :
          /\ \A i \in (n - k + 1)..n : h[i].action = val_call.action
          /\ k < n => h[n - k].action # val_call.action

MovesSinceSpawn ==
    LET h == val_call.history
        n == Len(h)
        since == CHOOSE k \in 0..n :
                    /\ \A i \in (n - k + 1)..n : h[i].action # "SPAWN_PIECE"
                    /\ k < n => h[n - k].action = "SPAWN_PIECE"
    IN Cardinality({i \in (n - since + 1)..n : h[i].action \notin {"SPAWN_PIECE", "HARD_DROP"}})

Limits == ValidatorOf(val_call.mode).policies

\* C12: for a validator of a mode with max_same_action_streak = s, a
\* horizontal move whose trailing run in the history is s or longer is not
\* approved; when fewer than max_moves_per_piece moves were made since the
\* last spawn, the rejection is the streak rejection, penalty 10.
C12_StreakIsRejected ==
    (/\ val_call.op = "validate_move"
     /\ val_call.mode # None
     /\ val_call.action \in {"MOVE_LEFT", "MOVE_RIGHT"}
     /\ TrailingRun >= Limits.max_same_action_streak)
    => /\ ~val_call.result.approved
       /\ MovesSinceSpawn < Limits.max_moves_per_piece
            => /\ val_call.result.penalty_points = 10
               /\ val_call.result.reason = <<"Action spam", val_call.action, TrailingRun>>

\* Witness of C12: an arcade validator refused a fourth MOVE_LEFT in a row.
C12_Witness ==
    /\ val_call.op = "validate_move"
    /\ val_call.mode = "arcade_mode"
    /\ val_call.action = "MOVE_LEFT"
    /\ TrailingRun = 3
    /\ val_call.result.penalty_points = 10

\* A streak met after max_moves_per_piece moves is refused for the moves.
C12_RefusedForMoves ==
    /\ val_call.op = "validate_move"
    /\ val_call.mode = "competitive_mode"
    /\ val_call.action = "MOVE_LEFT"
    /\ TrailingRun >= Limits.max_same_action_streak
    /\ val_call.result.penalty_points = 50

\* The pairs (previous action, action) in which the action undoes the
\* previous one.
OppositePairs ==
    {<<"MOVE_RIGHT", "MOVE_LEFT">>, <<"MOVE_LEFT", "MOVE_RIGHT">>,
     <<"ROTATE_CCW", "ROTATE_CW">>, <<"ROTATE_CW", "ROTATE_CCW">>}

\* C13: with max_backtrack_moves = 0 (competitive mode) and a non-empty
\* history, validate_move rejects every action that is the exact opposite of
\* the action of the last event, whatever the rest of the history is.
C13_CompetitiveRejectsEveryBacktrack ==
    (/\ val_call.op = "validate_move"
     /\ val_call.mode = "competitive_mode"
     /\ Limits.max_backtrack_moves = 0
     /\ val_call.history # << >>
     /\ <<val_call.history[Len(val_call.history)].action, val_call.action>>
            \in OppositePairs)
    => ~val_call.result.approved

\* Witness of C13: history = [MOVE_LEFT], MOVE_RIGHT proposed and refused as
\* a backtrack, none of them counted so far.
C13_Witness ==
    /\ val_call.op = "validate_move"
    /\ val_call.mode = "competitive_mode"
    /\ val_call.history = <<[action |-> "MOVE_LEFT"]>>
    /\ val_call.action = "MOVE_RIGHT"
    /\ ~val_call.result.approved
    /\ val_call.result.reason = <<"Backtrack limit exceeded", 0>>
    /\ val_call.result.penalty_points = 15

\* C14: for each preset mode and for the default limits, when the history
\* is empty or its last event is a spawn, validate_move approves each of the
\* six player actions with penalty 0.
C14_FreshPieceIsApproved ==
    (/\ val_call.op = "validate_move"
     /\ val_call.action \in PlayerActions
     /\ \/ val_call.history = << >>
        \/ val_call.history[Len(val_call.history)].action = "SPAWN_PIECE")
    => /\ val_call.result.approved
       /\ val_call.result.penalty_points = 0

\* Witness of C14: a competitive validator approved a move proposed right
\* after a spawn that follows a run of max_moves_per_piece moves.
C14_Witness ==
    /\ val_call.op = "validate_move"
    /\ val_call.mode = "competitive_mode"
    /\ Len(val_call.history) > Limits.max_moves_per_piece
    /\ val_call.history[Len(val_call.history)].action = "SPAWN_PIECE"
    /\ val_call.action = "MOVE_LEFT"
    /\ val_call.result.approved

\* The same on the empty history, under the default limits.
C14_EmptyHistory ==
    /\ val_call.op = "validate_move"
    /\ val_call.mode = None
    /\ val_call.history = << >>
    /\ val_call.result.approved

\* C15: validate_line_clear does not approve exactly when points_earned
\* differs from the table value of lines_cleared (0 for a count the table
\* does not hold), whatever the history; the rejection carries the submitted
\* points_earned as the amount to revoke.
C15_LineClearRejectedIffMismatch ==
    val_call.op = "validate_line_clear"
    => /\ ~val_call.result.approved
            <=> val_call.points_earned # ScoreTable(val_call.lines_cleared)
       /\ ~val_call.result.approved
            => val_call.result.penalty_points = val_call.points_earned

\* Witness of C15: 4 lines submitted with 750 points, after earlier clears,
\* refused with 750 to revoke.
C15_Witness ==
    /\ val_call.op = "validate_line_clear"
    /\ val_call.lines_cleared = 4
    /\ val_call.points_earned = 750
    /\ Len(val_call.history) = MaxClears
    /\ ~val_call.result.approved
    /\ val_call.result.penalty_points = 750
    /\ val_call.result.reason = <<"Invalid scoring", 4, 800, 750>>

\* A correct submission approved with the fraud-review warning.
C15_ApprovedWithWarning ==
    /\ val_call.op = "validate_line_clear"
    /\ val_call.result.approved
    /\ val_call.result.warning # None

(***************************************************************************)
(* execute_action as the coroutine it is.  A call runs from one await that *)
(* suspends it to the next: the read of the history, each append to the    *)
(* event store.  Other calls on the same execution, and readers of its     *)
(* log, run while it is suspended.                                         *)
(***************************************************************************)
CallIds == {"call-1", "call-2"}

\* Mutant of Suspended: a failed append is caught and the call goes on.
Suspended_swallowing(pc, log, new_state, event_payload, policy_result) ==
    [pc |-> IF pc = "raised" THEN "appended" ELSE pc, log |-> log,
     new_state |-> new_state, event_payload |-> event_payload,
     policy_result |-> policy_result]

\* A call stopped at `pc`, with what its local variables hold.
Suspended(pc, log, new_state, event_payload, policy_result) ==
    [pc |-> pc, log |-> log, new_state |-> new_state,
     event_payload |-> event_payload, policy_result |-> policy_result]

\* From the history read to the first append: policy validation, the
\* engine, the line-clear validation, and the append the call then awaits.
\* `state` is execution.game_state when the call resumes.
validate_and_apply(agent, state, history, log, action) ==
    LET current_state_dict == [score         |-> state.score,
                               lines_cleared |-> state.lines_cleared,
                               move_count    |-> state.move_count]
        policy_result == validate_move(agent.policy_validator, action,
                                       current_state_dict, history)
        rejected == policy_violation(state, log, action, policy_result)
        applied == apply_game_logic(agent, state, action)
        line_clear_result ==
            validate_line_clear(agent.policy_validator,
                                Get(applied.event, "lines_cleared", 0),
                                Get(applied.event, "points_earned", 0), history)
        fraud == append_event_safe(log, "FAILED",
                     [stage          |-> "fraud_detected",
                      action         |-> "LINE_CLEAR_FRAUD",
                      reason         |-> line_clear_result.reason,
                      revoked_points |-> Get(applied.event, "points_earned", 0)])
        appended == append_event_safe(log, "RUNNING",
                        [stage |-> "game_action"] @@ applied.event)
    IN IF ~policy_result.approved
       THEN Suspended(IF rejected.outcome = "raised" THEN "raised" ELSE "rejected",
                      rejected.log, state, NoEvent, policy_result)
       ELSE IF applied.event.action = "UNKNOWN"
       THEN Suspended("returned", log, state, NoEvent,
                      PolicyResult(FALSE, <<"Unknown action">>, 0, None))
       ELSE IF applied.event = NoEvent
       THEN Suspended("returned", log, state, NoEvent,
                      invalid_move(state, log).policy_result)
       ELSE IF applied.event.action = "PIECE_LOCKED" /\ ~line_clear_result.approved
       THEN Suspended(IF fraud.ok THEN "rejected" ELSE "raised", fraud.log, state,
                      NoEvent, line_clear_result)
       ELSE Suspended(IF appended.ok THEN "appended" ELSE "raised", appended.log,
                      applied.state, applied.event, policy_result)

\* From one append to the next await or to the return.  `call` is the
\* suspended call, `state` is execution.game_state when it resumes; the
\* result holds the game_state the execution has afterwards.
resume(agent, call, state, log, piece) ==
    LET spawned == spawn_piece(agent.engine, call.new_state, piece)
        appended2 == append_event_safe(log, "RUNNING",
                         [stage    |-> "spawn_piece",
                          action   |-> spawned.event.action,
                          piece    |-> spawned.event.piece,
                          position |-> spawned.event.position])
        finalized == finalize_game(log, call.new_state)
        at(pc, l, new_state, gs) ==
            [pc |-> pc, log |-> l, new_state |-> new_state, game_state |-> gs]
    IN IF call.pc = "rejected"
       THEN at("returned", log, call.new_state, [state EXCEPT !.game_over = TRUE])
       ELSE IF call.pc = "appended" /\ call.event_payload.action = "PIECE_LOCKED"
       THEN at(IF appended2.ok THEN "spawned" ELSE "raised", appended2.log,
               spawned.state, state)
       ELSE IF call.pc = "spawned" /\ call.new_state.game_over
       THEN at(IF finalized.ok THEN "finalizing" ELSE "raised", finalized.log,
               call.new_state, state)
       ELSE at("returned", log, call.new_state, call.new_state)

Finished(c) == c \in DOMAIN inflight /\ inflight[c].pc \in {"returned", "raised"}

Running(c) == c \in DOMAIN inflight /\ ~Finished(c)

\* The state and the log before the first of the calls was made.
BaseOf(calls) ==
    IF DOMAIN calls = {}
    THEN [state |-> game_state["game-1"], log |-> event_store["game-1"]]
    ELSE calls[CHOOSE c \in DOMAIN calls : TRUE].base

\* What a finished call hands back.
Returned(call) ==
    [outcome       |-> IF call.pc = "raised" THEN "raised" ELSE "returned",
     policy_result |-> call.policy_result,
     event_payload |-> IF call.pc = "raised" THEN NoEvent ELSE call.event_payload]

\* The sequential calls made before the concurrent ones.
WarmUp ==
    /\ inflight = NoInflight
    /\ Len(event_store["game-1"]) < MaxWarmUp
    /\ ExecuteAction("game-1")

\* A call is made and reads the history of its execution.
BeginCall(c) ==
    /\ c \notin DOMAIN inflight
    /\ "game-1" \in started
    /\ \E action \in PlayerActions :
         inflight' = (c :> [pc            |-> "history_read",
                            action        |-> action,
                            history       |-> read_history(event_store, "game-1"),
                            base          |-> BaseOf(inflight),
                            new_state     |-> game_state["game-1"],
                            event_payload |-> NoEvent,
                            policy_result |-> NoResult]) @@ inflight
    /\ UNCHANGED <<game_state, started, event_store, last, eng_state, eng_result,
                   val_call>>

ValidateAndApply(c) ==
    /\ c \in DOMAIN inflight
    /\ inflight[c].pc = "history_read"
    /\ \E step \in {validate_and_apply(Agent, game_state["game-1"], inflight[c].history,
                                       event_store["game-1"], inflight[c].action)} :
         /\ event_store' = [event_store EXCEPT !["game-1"] = step.log]
         /\ inflight' = [inflight EXCEPT ![c].pc = step.pc,
                                         ![c].new_state = step.new_state,
                                         ![c].event_payload = step.event_payload,
                                         ![c].policy_result = step.policy_result]
         /\ last' = IF step.pc \in {"returned", "raised"}
                    THEN Call("execute_action", "game-1", inflight[c].action,
                              Returned(step))
                    ELSE last
    /\ UNCHANGED <<game_state, started, eng_state, eng_result, val_call>>

Resume(c) ==
    /\ Running(c)
    /\ inflight[c].pc # "history_read"
    /\ \E piece \in (IF inflight[c].pc = "appended" THEN PieceChoices ELSE {"I"}) :
       \E step \in {resume(Agent, inflight[c], game_state["game-1"],
                           event_store["game-1"], piece)} :
         /\ event_store' = [event_store EXCEPT !["game-1"] = step.log]
         /\ game_state' = [game_state EXCEPT !["game-1"] = step.game_state]
         /\ inflight' = [inflight EXCEPT ![c].pc = step.pc,
                                         ![c].new_state = step.new_state]
         /\ last' = IF step.pc \in {"returned", "raised"}
                    THEN Call("execute_action", "game-1", inflight[c].action,
                              Returned([inflight[c] EXCEPT !.pc = step.pc]))
                    ELSE last
    /\ UNCHANGED <<started, eng_state, eng_result, val_call>>

\* verify_game_integrity reads the events of the execution.
VerifyGameIntegrity ==
    /\ "game-1" \in started
    /\ last.op # "verify_game_integrity"
    /\ last' = [op |-> "verify_game_integrity", execution_id |-> "game-1",
                action |-> None, outcome |-> "returned", policy_result |-> NoResult,
                event_payload |-> NoEvent,
                events |-> get_execution(event_store, "game-1")]
    /\ UNCHANGED <<game_state, started, event_store, eng_state, eng_result, val_call,
                   inflight>>

ConcurrentNext ==
    \/ StartGame("game-1")
    \/ WarmUp
    \/ \E c \in CallIds : BeginCall(c)
    \/ \E c \in CallIds : ValidateAndApply(c)
    \/ \E c \in CallIds : Resume(c)
    \/ VerifyGameIntegrity

SpecConcurrent == Init /\ [][ConcurrentNext]_vars

\* The two calls run one after the other from the state and the log
\* `base`, `first` before `second`, with the pieces the spawns drew.
SerialRun(base, first, second, piece1, piece2) ==
    LET history_of(log) == [i \in 1..Len(log) |-> log[i].payload]
        r1 == execute_action(Agent, base.state, history_of(base.log), base.log,
                             first, piece1)
    IN execute_action(Agent, r1.game_state, history_of(r1.log), r1.log,
                      second, piece2)

BothFinished == \A c \in CallIds : Finished(c)

\* C16: two execute_action calls made concurrently on one session leave
\* the log and the session state that running them one after the other,
\* in one of the two orders, leaves.
C16_ConcurrentCallsAreSerializable ==
    BothFinished =>
        \E c \in CallIds : \E d \in CallIds \ {c} :
        \E piece1 \in PieceChoices : \E piece2 \in PieceChoices :
            LET serial == SerialRun(inflight[c].base, inflight[c].action,
                                    inflight[d].action, piece1, piece2)
            IN /\ Session = serial.game_state
               /\ SessionLog = serial.log

\* Two concurrent calls have both returned after logging a transition.
C16_BothLogged ==
    /\ BothFinished
    /\ \A c \in CallIds : inflight[c].pc = "returned"
                          /\ inflight[c].event_payload # NoEvent

\* The events of the log the reader was handed.
Observed == last.events

IsLock(e) == e.state = "RUNNING" /\ Get(e.payload, "action", None) = "PIECE_LOCKED"

IsSpawn(e) == e.state = "RUNNING" /\ Get(e.payload, "stage", None) = "spawn_piece"

\* A call whose spawn collided and whose FINALIZED event is not appended yet.
CollidedSpawnPending ==
    \E c \in DOMAIN inflight : inflight[c].pc = "spawned" /\ inflight[c].new_state.game_over

\* C17: verify_game_integrity, run at any moment, is handed a log in which
\* every lock event is directly followed by its spawn event, and the spawn
\* of a collided piece by the FINALIZED event.
C17_ReaderSeesWholeLockSequence ==
    last.op = "verify_game_integrity" =>
        /\ \A i \in 1..Len(Observed) :
              IsLock(Observed[i]) =>
                  i < Len(Observed) /\ IsSpawn(Observed[i + 1])
        /\ (Observed = SessionLog /\ Observed # << >>
            /\ IsSpawn(Observed[Len(Observed)])) => ~CollidedSpawnPending

\* The reader ran while a call was between its lock append and its spawn append.
C17_ReadBetweenLockAndSpawn ==
    /\ last.op = "verify_game_integrity"
    /\ Observed # << >>
    /\ IsLock(Observed[Len(Observed)])

(***************************************************************************)
(* Two sessions played in any interleaving: each call is made on one of    *)
(* the executions of active_games, the other one is not named in it.       *)
(***************************************************************************)
SessionOpen(eid) == Len(event_store[eid]) < MaxSessionEvents

SessionStart(eid) == SessionOpen(eid) /\ StartGame(eid)

SessionAction(eid) == SessionOpen(eid) /\ ExecuteAction(eid)

SessionsNext ==
    \/ \E eid \in ExecutionIds : SessionStart(eid)
    \/ \E eid \in ExecutionIds : SessionAction(eid)

SpecSessions == Init /\ [][SessionsNext]_vars

\* The call of the step, made on a session whose log and state are `log`
\* and `state`, with no other session in the store.
AloneResults(call, state, log) ==
    LET history == [i \in 1..Len(log) |-> log[i].payload]
    IN IF call.op = "start_game"
       THEN {start_game(Agent, state, log, piece) : piece \in PieceChoices}
       ELSE {execute_action(Agent, state, history, log, call.action, piece) :
                piece \in PieceChoices}

\* C18: a start_game or execute_action on one session leaves the state and
\* the log of the other session unchanged, and ends as it ends when the
\* other session does not exist.
C18_SessionsAreIndependent ==
    [][\A a \in ExecutionIds : last'.execution_id = a =>
          /\ \A b \in ExecutionIds \ {a} :
                /\ game_state'[b] = game_state[b]
                /\ event_store'[b] = event_store[b]
          /\ \E r \in AloneResults(last', game_state[a], event_store[a]) :
                /\ game_state'[a] = r.game_state
                /\ event_store'[a] = r.log
                /\ last'.outcome = r.outcome
                /\ last'.policy_result = r.policy_result
                /\ last'.event_payload = r.event_payload]_vars

\* A call on one session has logged an event while the other session is
\* in the middle of its game.
C18_Witness ==
    /\ last.op = "execute_action"
    /\ last.event_payload # NoEvent
    /\ \E b \in ExecutionIds \ {last.execution_id} :
          /\ b \in started
          /\ Len(event_store[b]) >= 2
          /\ game_state[b] # game_state[last.execution_id]

(***************************************************************************)
(* src/web/tetris_api.py: game_action, the handler every player request    *)
(* goes through, on plays long enough to reach the validator's limits.     *)
(***************************************************************************)
\* The names a request may carry: the values of TetrisAction and one name
\* that is not a value of it.
RequestedActions == TetrisAction \cup {"TELEPORT"}

\* Mutant of game_action: the game_over check is left out.
game_action_unchecked(agent, state, history, log, requested, piece) ==
    IF requested \notin TetrisAction
    THEN CallResult(state, log, "http_400", NoResult, NoEvent)
    ELSE execute_action(agent, state, history, log, requested, piece)

game_action(agent, state, history, log, requested, piece) ==
    IF state.game_over
    THEN CallResult(state, log, "http_400", NoResult, NoEvent)
    ELSE IF requested \notin TetrisAction
    THEN CallResult(state, log, "http_400", NoResult, NoEvent)
    ELSE execute_action(agent, state, history, log, requested, piece)

\* Fifty moves on one piece that no policy rejects: the piece is turned
\* and turned back twice, then stepped left; again, then stepped right.
RotateAndStep ==
    [i \in 1..(MaxScriptBlocks * 10) |->
        IF i % 10 = 5 THEN "MOVE_LEFT"
        ELSE IF i % 10 = 0 THEN "MOVE_RIGHT"
        ELSE IF i % 10 \in {1, 3, 6, 8} THEN "ROTATE_CW"
        ELSE "ROTATE_CCW"]

\* A piece is brought down and locked, the next one is moved to the left
\* wall and dropped.
LockThenDrop ==
    [i \in 1..(AgentRows + AgentCols - 3) |->
        IF i <= AgentRows THEN "MOVE_DOWN"
        ELSE IF i < AgentRows + AgentCols - 3 THEN "MOVE_LEFT"
        ELSE "HARD_DROP"]

Scripts == {RotateAndStep, LockThenDrop}

\* The transition events of the log, in order.
Transitions(log) ==
    SelectSeq(log, LAMBDA e : Get(e.payload, "stage", None) = "game_action")

\* Every transition of the log is the script's move at its place (a
\* MOVE_DOWN that locked is logged as PIECE_LOCKED).
OnScript(script, log) ==
    LET done == Transitions(log)
    IN /\ Len(done) <= Len(script)
       /\ \A k \in 1..Len(done) :
             \/ done[k].payload.action = script[k]
             \/ script[k] = "MOVE_DOWN" /\ done[k].payload.action = "PIECE_LOCKED"
       /\ \A i \in 1..Len(log) : log[i].state = "RUNNING"

ScriptStart == "game-1" \notin started /\ StartGame("game-1")

\* A request on a session that has followed one of the scripts so far.
GameAction ==
    /\ "game-1" \in started
    /\ \E script \in Scripts : OnScript(script, event_store["game-1"])
    /\ \E requested \in RequestedActions : \E piece \in SpawnChoices(requested) :
         \E r \in {game_action(Agent, game_state["game-1"],
                               read_history(event_store, "game-1"),
                               event_store["game-1"], requested, piece)} :
            /\ game_state' = set_game_state(game_state, "game-1", r.game_state)
            /\ event_store' = [event_store EXCEPT !["game-1"] = r.log]
            /\ last' = Call("game_action", "game-1", requested, r)
    /\ UNCHANGED <<started, eng_state, eng_result, val_call, inflight>>

ScriptNext == ScriptStart \/ GameAction

SpecScript == Init /\ [][ScriptNext]_vars

\* C19: a request whose action is not one of the six player actions is
\* turned away with nothing done: no event appended, the session not
\* marked terminal, no session state changed.
C19_NonPlayerActionChangesNothing ==
    [][(last'.op = "game_action" /\ last'.action \notin PlayerActions) =>
          /\ event_store' = event_store
          /\ game_state' = game_state]_vars

\* A SPAWN_PIECE request was answered "Unknown action".
C19_UnknownActionAnswer ==
    /\ last.op = "game_action"
    /\ last.action = "SPAWN_PIECE"
    /\ last.policy_result.reason = <<"Unknown action">>

RECURSIVE SumOver(_, _, _)
\* The sum of `field` over the transition events among the first n of the log.
SumOver(log, n, field) ==
    IF n = 0 THEN 0
    ELSE SumOver(log, n - 1, field)
         + (IF Get(log[n].payload, "stage", None) = "game_action"
            THEN Get(log[n].payload, field, 0) ELSE 0)

\* C20: the session's score is the sum of points_earned and bonus_points
\* over the logged transition events, and its lines_cleared the sum of
\* lines_cleared over them.
C20_ScoreIsInTheLog ==
    (last.op = "game_action" /\ last.outcome = "returned") =>
        /\ Session.score = SumOver(SessionLog, Len(SessionLog), "points_earned")
                           + SumOver(SessionLog, Len(SessionLog), "bonus_points")
        /\ Session.lines_cleared = SumOver(SessionLog, Len(SessionLog), "lines_cleared")

\* A hard drop was logged with points for the distance dropped.
C20_HardDropLogged ==
    /\ last.op = "game_action"
    /\ last.event_payload.action = "HARD_DROP"
    /\ last.event_payload.bonus_points > 0
    /\ Session.score = SumOver(SessionLog, Len(SessionLog), "bonus_points")

(***************************************************************************)
(* Finalization, failed appends, warnings and terminal sessions.           *)
(***************************************************************************)
\* The events the step appended to the log of game-1.
Added == SubSeq(event_store'["game-1"], Len(SessionLog) + 1,
                Len(event_store'["game-1"]))

\* The piece, placed at the spawn position, overlaps an occupied cell.
SpawnOverlaps(board, piece) ==
    \E i \in 1..Len(SHAPES[piece]) :
        board[SHAPES[piece][i][1] + 1][3 + SHAPES[piece][i][2] + 1] # None

\* The step appended a lock event and a spawn event whose piece collided.
LockedAndCollided ==
    /\ Len(Added) >= 2
    /\ Added[1].payload.action = "PIECE_LOCKED"
    /\ Added[2].payload.stage = "spawn_piece"
    /\ SpawnOverlaps(game_state'["game-1"].board, Added[2].payload.piece)

\* C21: execute_action appends a FINALIZED event exactly when the spawn
\* after a lock collides; it is then the one event after the spawn event,
\* it carries the score, lines and move count of the state after the lock,
\* and the session is terminal when the call returns.  start_game appends
\* no FINALIZED event.
C21_FinalizedIffSpawnCollides ==
    [][LET returned == last'.op = "execute_action" /\ last'.outcome = "returned"
           finalized == \E i \in 1..Len(Added) : Added[i].state = "FINALIZED"
           summary ==
               /\ Len(Added) = 3
               /\ Added[3].state = "FINALIZED"
               /\ Added[3].payload.final_score = game_state'["game-1"].score
               /\ Added[3].payload.lines_cleared = game_state'["game-1"].lines_cleared
               /\ Added[3].payload.move_count = game_state'["game-1"].move_count
               /\ game_state'["game-1"].game_over
       IN /\ returned => (finalized <=> LockedAndCollided)
          /\ (returned /\ LockedAndCollided) => summary
          /\ (last'.op = "start_game") => ~finalized]_vars

\* A lock was followed by a collided spawn and the game was finalized.
C21_Witness ==
    /\ last.op = "execute_action"
    /\ last.outcome = "returned"
    /\ last.event_payload.action = "PIECE_LOCKED"
    /\ SessionLog[Len(SessionLog)].state = "FINALIZED"
    /\ Session.game_over

\* A lock was followed by a spawn that did not collide.
C21_SpawnedWithoutFinalize ==
    /\ last.op = "execute_action"
    /\ last.event_payload.action = "PIECE_LOCKED"
    /\ ~HasFinalized(SessionLog)
    /\ ~Session.game_over

\* The events of a finished call are in the log: its transition event,
\* after a lock the spawn event, after a collided spawn the FINALIZED event.
AllAppended(call, log) ==
    \E i \in 1..Len(log) :
        /\ log[i].payload = [stage |-> "game_action"] @@ call.event_payload
        /\ call.event_payload.action = "PIECE_LOCKED" =>
              /\ \E j \in (i + 1)..Len(log) : log[j].payload.stage = "spawn_piece"
              /\ call.new_state.game_over => HasFinalized(log)

\* C22: a call whose append fails ends in a failure raised to its caller;
\* the failing step appends nothing and updates no state, the call takes
\* no step after it, and a call that returns an approved result with an
\* event has all its events in the log.
C22_FailedAppendIsRaised ==
    [][\A c \in DOMAIN inflight' :
          LET after == inflight'[c]
              fails == c \in DOMAIN inflight /\ inflight[c].pc # "raised"
                       /\ after.pc = "raised"
              failed == c \in DOMAIN inflight /\ inflight[c].pc = "raised"
              approved == after.pc = "returned" /\ after.policy_result.approved
                          /\ after.event_payload # NoEvent
          IN /\ approved => AllAppended(after, event_store'["game-1"])
             /\ fails => /\ event_store' = event_store
                         /\ game_state' = game_state
                         /\ last'.outcome = "raised"
                         /\ HasFinalized(SessionLog)
             /\ failed => after = inflight[c]]_vars

\* An append of a call was refused because the log was finalized meanwhile.
C22_Witness ==
    /\ HasFinalized(SessionLog)
    /\ \E c \in DOMAIN inflight :
          /\ inflight[c].pc = "raised"
          /\ inflight[c].policy_result.approved
          /\ last.outcome = "raised"

(***************************************************************************)
(* A session in the middle of a game: MaxClears pieces were locked before, *)
(* each clearing no row, one row or four, and the current piece lies on    *)
(* the bottom row, which the cells to its left do or do not complete.      *)
(***************************************************************************)
PriorLines == {0, 1, 4}

\* The lock event and the spawn event of an earlier piece.
PriorLock(lines, total_score) ==
    <<Event("RUNNING",
            [stage         |-> "game_action",
             action        |-> "PIECE_LOCKED",
             piece         |-> "I",
             position      |-> <<AgentRows - 1, 3>>,
             lines_cleared |-> lines,
             cleared_rows  |-> [i \in 1..lines |-> AgentRows - lines + i - 1],
             points_earned |-> points(lines),
             total_score   |-> total_score]),
      Event("RUNNING",
            [stage    |-> "spawn_piece",
             action   |-> "SPAWN_PIECE",
             piece    |-> "I",
             position |-> <<0, 3>>])>>

RECURSIVE PriorLog(_, _)
\* The log of a game in which the pieces of `clears` were locked.
PriorLog(clears, n) ==
    IF n = 0
    THEN <<Event("RUNNING",
                 [stage |-> "game_start", action |-> "SPAWN_PIECE", piece |-> "I",
                  position |-> <<0, 3>>, mode |-> Agent.mode])>>
    ELSE LET before == PriorLog(clears, n - 1)
             score_before ==
                 IF n = 1 THEN 0
                 ELSE before[Len(before) - 1].payload.total_score
         IN before \o PriorLock(clears[n], score_before + points(clears[n]))

RECURSIVE SumLines(_, _)
SumLines(clears, n) == IF n = 0 THEN 0 ELSE SumLines(clears, n - 1) + clears[n]

\* The bottom row filled left of column 3, or an empty board.
MidGameBoard(filled) ==
    [r \in 1..AgentRows |->
        [c \in 1..AgentCols |->
            IF filled /\ r = AgentRows /\ c <= 3 THEN "T" ELSE None]]

MidGameInit ==
    /\ \E clears \in [1..MaxClears -> PriorLines] : \E filled \in BOOLEAN :
       \E log \in {PriorLog(clears, MaxClears)} :
          /\ event_store = [e \in ExecutionIds |->
                               IF e = "game-1" THEN log ELSE << >>]
          /\ game_state =
               [e \in ExecutionIds |->
                   IF e = "game-1"
                   THEN [board            |-> MidGameBoard(filled),
                         current_piece    |-> "I",
                         current_pos      |-> <<AgentRows - 1, 3>>,
                         current_rotation |-> 0,
                         score            |-> log[Len(log) - 1].payload.total_score,
                         lines_cleared    |-> SumLines(clears, MaxClears),
                         game_over        |-> FALSE,
                         move_count       |-> MaxClears * AgentRows]
                   ELSE new_game(AgentRows, AgentCols)]
    /\ started = {"game-1"}
    /\ last = NoCall
    /\ inflight = NoInflight
    /\ eng_state = new_game(EngRows, EngCols)
    /\ eng_result = NoEngineResult
    /\ val_call = NoValidatorCall

\* execute_action on the session, for a few calls more.
MidGameAction ==
    /\ Len(SessionLog) < 1 + 2 * MaxClears + MaxMidGame
    /\ \E action \in PlayerActions : \E piece \in SpawnChoices(action) :
         \E r \in {execute_action(Agent, Session, read_history(event_store, "game-1"),
                                  SessionLog, action, piece)} :
            /\ game_state' = set_game_state(game_state, "game-1", r.game_state)
            /\ event_store' = [event_store EXCEPT !["game-1"] = r.log]
            /\ last' = Call("execute_action", "game-1", action, r)
    /\ UNCHANGED <<started, eng_state, eng_result, val_call, inflight>>

SpecMidGame == MidGameInit /\ [][MidGameAction]_vars

\* The step appended a lock event that validate_line_clear approves with
\* a warning, given the history the call read.
LockApprovedWithWarning ==
    /\ last'.op = "execute_action"
    /\ Len(Added) >= 1
    /\ Added[1].payload.action = "PIECE_LOCKED"
    /\ LET checked == validate_line_clear(Agent.policy_validator,
                                          Added[1].payload.lines_cleared,
                                          Added[1].payload.points_earned,
                                          read_history(event_store, "game-1"))
       IN checked.approved /\ checked.warning # None

\* C23: a lock that validate_line_clear approves with a warning appends no
\* FAILED event and ends the session only if the spawn after it collides,
\* and the warning is in the lock's event or in the result the caller gets.
C23_WarningIsRecorded ==
    [][LockApprovedWithWarning =>
          /\ \A i \in 1..Len(Added) : Added[i].state # "FAILED"
          /\ game_state'["game-1"].game_over => LockedAndCollided
          /\ \/ Get(Added[1].payload, "warning", None) # None
             \/ last'.policy_result.warning # None]_vars

\* C23, the part that holds: such a lock appends no FAILED event and ends
\* the session only if the spawn after it collides.
C23_WarnedLockKeepsRunning ==
    [][LockApprovedWithWarning =>
          /\ \A i \in 1..Len(Added) : Added[i].state # "FAILED"
          /\ game_state'["game-1"].game_over => LockedAndCollided]_vars

(***************************************************************************)
(* The request handlers on one session, with any request at any time.      *)
(***************************************************************************)
ApiAction ==
    /\ "game-1" \in started
    /\ CallAllowed("game-1")
    /\ \E requested \in RequestedActions : \E piece \in SpawnChoices(requested) :
         \E r \in {game_action(Agent, Session, read_history(event_store, "game-1"),
                               SessionLog, requested, piece)} :
            /\ game_state' = set_game_state(game_state, "game-1", r.game_state)
            /\ event_store' = [event_store EXCEPT !["game-1"] = r.log]
            /\ last' = Call("game_action", "game-1", requested, r)
    /\ UNCHANGED <<started, eng_state, eng_result, val_call, inflight>>

ApiNext == ScriptStart \/ ApiAction

SpecApi == Init /\ [][ApiNext]_vars

\* C24: game_action on a session whose state is terminal answers with an
\* error, does not reach execute_action, appends no event and leaves the
\* session state as it is.
C24_TerminalSessionRefusesInput ==
    [][(last'.op = "game_action" /\ Session.game_over) =>
          /\ last'.outcome = "http_400"
          /\ last'.policy_result = NoResult
          /\ last'.event_payload = NoEvent
          /\ event_store' = event_store
          /\ game_state' = game_state]_vars

\* A player action was refused on a session ended by a policy rejection.
C24_Witness ==
    /\ last.op = "game_action"
    /\ last.action \in PlayerActions
    /\ last.outcome = "http_400"
    /\ Session.game_over
    /\ SessionLog[Len(SessionLog)].state = "FAILED"

\* A player action was refused on a session ended by a full board.
C24_RefusedAfterFinalize ==
    /\ last.op = "game_action"
    /\ last.action \in PlayerActions
    /\ last.outcome = "http_400"
    /\ SessionLog[Len(SessionLog)].state = "FINALIZED"

(***************************************************************************)
(* The order of the checks of validate_move and the backtrack check.       *)
(***************************************************************************)
Rotations == {"ROTATE_CW", "ROTATE_CCW"}

\* The length of the run of rotation events that ends the history.
RotationRun ==
    LET h == val_call.history
        n == Len(h)
    IN CHOOSE k \in 0..n :
          /\ \A i \in (n - k + 1)..n : h[i].action \in Rotations
          /\ k < n => h[n - k].action \notin Rotations

\* The history ends with the opposite of the proposed action.
LastIsOpposite ==
    LET h == val_call.history
    IN /\ h # << >>
       /\ <<h[Len(h)].action, val_call.action>> \in OppositePairs

\* The places among the last 20 entries of the history where an entry is
\* followed by its opposite, for the pairs of `pairs`.
Transitions20(pairs) ==
    LET h == val_call.history
        n == Len(h)
    IN {i \in 1..(n - 1) : i >= n - 19 /\ <<h[i].action, h[i + 1].action>> \in pairs}

HorizontalPairs == {<<"MOVE_LEFT", "MOVE_RIGHT">>, <<"MOVE_RIGHT", "MOVE_LEFT">>}

C25_MovesCheckFirst ==
    /\ val_call.op = "validate_move"
    /\ MovesSinceSpawn >= Limits.max_moves_per_piece
    /\ val_call.action \in {"MOVE_LEFT", "MOVE_RIGHT"}
    /\ TrailingRun >= Limits.max_same_action_streak
    /\ val_call.result.penalty_points = 50

\* The checks made before the backtrack check all pass.
EarlierChecksPass ==
    /\ MovesSinceSpawn < Limits.max_moves_per_piece
    /\ val_call.action \in Rotations =>
          RotationRun < Limits.max_consecutive_rotations
    /\ val_call.action \in {"MOVE_LEFT", "MOVE_RIGHT"} =>
          TrailingRun < Limits.max_same_action_streak

\* C26: a proposed action that is the opposite of the last history action
\* is rejected, penalty 15, exactly when the last 20 history entries hold
\* max_backtrack_moves or more places where an action is followed by its
\* opposite, left/right and cw/ccw alike.
C26_BacktrackCountsBothPairs ==
    (val_call.op = "validate_move" /\ LastIsOpposite /\ EarlierChecksPass) =>
        LET rejected == ~val_call.result.approved
                        /\ val_call.result.penalty_points = 15
        IN rejected <=> Cardinality(Transitions20(OppositePairs))
                            >= Limits.max_backtrack_moves

\* C26 as the code decides it: only left/right places are counted.
C26_BacktrackCountsHorizontalPairs ==
    (val_call.op = "validate_move" /\ LastIsOpposite /\ EarlierChecksPass) =>
        LET rejected == ~val_call.result.approved
                        /\ val_call.result.penalty_points = 15
        IN rejected <=> Cardinality(Transitions20(HorizontalPairs))
                            >= Limits.max_backtrack_moves

(***************************************************************************)
(* The suspicious-pattern check of validate_line_clear.                    *)
(***************************************************************************)
\* The places of the history that report a nonzero clear, and the five
\* most recent of them.
ClearPlaces ==
    {i \in 1..Len(val_call.history) :
        \/ Get(val_call.history[i], "action", None) = "LINE_CLEAR"
        \/ Get(val_call.history[i], "lines_cleared", 0) > 0}

RecentPlaces == {i \in ClearPlaces : Cardinality({j \in ClearPlaces : j > i}) < 5}

RECURSIVE PointsAt(_)
PointsAt(places) ==
    IF places = {} THEN 0
    ELSE LET i == CHOOSE x \in places : TRUE
         IN Get(val_call.history[i], "points_earned", 0) + PointsAt(places \ {i})

PointsMatchTable == val_call.points_earned = ScoreTable(val_call.lines_cleared)

\* C27: a line clear whose points match the table is approved, with a
\* warning exactly when the most recent (at most 5) history entries that
\* report a clear are 3 or more and their points sum to more than
\* bonus_fraud_threshold.
C27_WarningIffRecentClearsExceed ==
    (val_call.op = "validate_line_clear" /\ PointsMatchTable) =>
        /\ val_call.result.approved
        /\ val_call.result.penalty_points = 0
        /\ val_call.result.warning # None
              <=> /\ Cardinality(RecentPlaces) >= 3
                  /\ PointsAt(RecentPlaces) > Limits.bonus_fraud_threshold

\* More than five clears in the history, all of them together above the
\* threshold, the five most recent not: approved with no warning.
C27_Witness ==
    /\ val_call.op = "validate_line_clear"
    /\ PointsMatchTable
    /\ Cardinality(ClearPlaces) > 5
    /\ PointsAt(ClearPlaces) > Limits.bonus_fraud_threshold
    /\ PointsAt(RecentPlaces) <= Limits.bonus_fraud_threshold
    /\ val_call.result.approved
    /\ val_call.result.warning = None

\* Three recent clears above the threshold: approved with the warning.
C27_Warned ==
    /\ val_call.op = "validate_line_clear"
    /\ PointsMatchTable
    /\ Cardinality(RecentPlaces) = 3
    /\ val_call.result.approved
    /\ val_call.result.warning # None

(***************************************************************************)
(* Moves, rotations and spawns of the engine.                              *)
(***************************************************************************)
\* The state the action asks for: the piece one cell further, or turned.
Candidate ==
    LET row == eng_state.current_pos[1]
        col == eng_state.current_pos[2]
    IN CASE eng_result.action = "MOVE_LEFT" ->
                [eng_state EXCEPT !.current_pos = <<row, col - 1>>]
         [] eng_result.action = "MOVE_RIGHT" ->
                [eng_state EXCEPT !.current_pos = <<row, col + 1>>]
         [] eng_result.action = "MOVE_DOWN" ->
                [eng_state EXCEPT !.current_pos = <<row + 1, col>>]
         [] eng_result.action = "ROTATE_CW" ->
                [eng_state EXCEPT !.current_rotation = (@ + 1) % 4]
         [] eng_result.action = "ROTATE_CCW" ->
                [eng_state EXCEPT !.current_rotation = (@ + 3) % 4]
         [] OTHER -> eng_state

\* A cell of the piece of s is outside the board or on an occupied cell.
Blocked(s) ==
    \E cell \in PieceCells(s, s.current_pos) :
        \/ cell[1] < 0 \/ cell[1] >= EngRows
        \/ cell[2] < 0 \/ cell[2] >= EngCols
        \/ eng_state.board[cell[1] + 1][cell[2] + 1] # None

MovedOrTurned ==
    /\ eng_result.op \in {"move", "rotate"}
    /\ eng_state.current_piece # None
    /\ ~eng_state.game_over

\* C28: on a running state with a piece, a blocked MOVE_DOWN locks the
\* piece where it is and returns the lock event; a blocked MOVE_LEFT,
\* MOVE_RIGHT or rotation returns the state unchanged and no event; a free
\* one changes the position or the rotation, and move_count, and nothing
\* else.
C28_BlockedMoveLocksOrDoesNothing ==
    MovedOrTurned =>
        IF ~Blocked(Candidate)
        THEN /\ eng_result.state = [Candidate EXCEPT !.move_count = @ + 1]
             /\ eng_result.event.action = eng_result.action
        ELSE IF eng_result.action = "MOVE_DOWN"
        THEN /\ eng_result.event.action = "PIECE_LOCKED"
             /\ eng_result.event.position = eng_state.current_pos
             /\ eng_result.state.current_piece = None
             /\ FullRowCount(eng_state, eng_state.current_pos) = 0 =>
                   eng_result.state.board
                       = MergedRows(eng_state, eng_state.current_pos)
        ELSE /\ eng_result.state = eng_state
             /\ eng_result.event = NoEvent

\* A rotation was refused because the turned piece meets an occupied cell,
\* though it would fit one column to the side.
C28_Witness ==
    /\ MovedOrTurned
    /\ eng_result.op = "rotate"
    /\ Blocked(Candidate)
    /\ \A cell \in PieceCells(Candidate, Candidate.current_pos) :
          /\ cell[1] >= 0 /\ cell[1] < EngRows
          /\ cell[2] >= 0 /\ cell[2] < EngCols
    /\ ~Blocked([Candidate EXCEPT !.current_pos = <<@[1], @[2] - 1>>])
    /\ eng_result.event = NoEvent

\* A MOVE_DOWN met an occupied cell and locked the piece.
C28_LockedOnStack ==
    /\ MovedOrTurned
    /\ eng_result.action = "MOVE_DOWN"
    /\ Blocked(Candidate)
    /\ ~Blocked(eng_state)
    /\ eng_state.current_pos[1] < EngRows - 2
    /\ eng_result.event.action = "PIECE_LOCKED"

\* The cells a piece can cover at the spawn position (0, 3), rotation 0.
SpawnCells ==
    UNION {{<<SHAPES[p][i][1], 3 + SHAPES[p][i][2]>> : i \in 1..Len(SHAPES[p])} :
              p \in Tetromino}

\* Boards of the agent's engine with any set of the spawn cells occupied, and
\* optionally a partly filled bottom row.
SpawnBoard(occupied, stacked) ==
    [r \in 1..AgentRows |->
        [c \in 1..AgentCols |->
            IF <<r - 1, c - 1>> \in occupied THEN "Z"
            ELSE IF stacked /\ r = AgentRows /\ c <= 3 THEN "T"
            ELSE None]]

\* States spawn_piece is called on: after a lock (no current piece), running
\* or already terminal.
SpawnInit ==
    /\ OrchestratorInit
    /\ \E occupied \in SUBSET SpawnCells, stacked \in BOOLEAN, g \in BOOLEAN :
         eng_state = [board            |-> SpawnBoard(occupied, stacked),
                      current_piece    |-> None,
                      current_pos      |-> <<AgentRows - 2, 1>>,
                      current_rotation |-> 1,
                      score            |-> 340,
                      lines_cleared    |-> 3,
                      game_over        |-> g,
                      move_count       |-> 12]
    /\ eng_result = NoEngineResult
    /\ val_call = NoValidatorCall

\* spawn_piece, for each piece random.choice can return.
EngineSpawn ==
    /\ eng_result.op = "none"
    /\ \E piece \in Tetromino :
         eng_result' = EngineResult("spawn_piece", "SPAWN_PIECE",
                                    spawn_piece(Agent.engine, eng_state, piece))
    /\ UNCHANGED <<game_state, started, event_store, last, eng_state, val_call, inflight>>

SpecSpawn == SpawnInit /\ [][EngineSpawn]_vars

Spawned == eng_result.op = "spawn_piece"

\* C29: spawn_piece puts the chosen piece at (0, 3) with rotation 0 and keeps
\* board, score, lines_cleared and move_count; the result is terminal exactly
\* when the piece at the spawn position overlaps an occupied cell or the state
\* was already terminal, and the event's game_over field is that flag.
C29_SpawnPlacesAndFlags ==
    Spawned =>
        /\ eng_result.state.current_piece \in Tetromino
        /\ eng_result.event.piece = eng_result.state.current_piece
        /\ eng_result.state.current_pos = <<0, 3>>
        /\ eng_result.event.position = <<0, 3>>
        /\ eng_result.state.current_rotation = 0
        /\ eng_result.state.board = eng_state.board
        /\ eng_result.state.score = eng_state.score
        /\ eng_result.state.lines_cleared = eng_state.lines_cleared
        /\ eng_result.state.move_count = eng_state.move_count
        /\ eng_result.state.game_over
             <=> (eng_state.game_over
                    \/ SpawnOverlaps(eng_state.board, eng_result.state.current_piece))
        /\ eng_result.event.game_over = eng_result.state.game_over
        /\ eng_result.event.action = "SPAWN_PIECE"

\* A running state whose spawn is blocked by an occupied cell.
C29_Witness ==
    /\ Spawned
    /\ ~eng_state.game_over
    /\ SpawnOverlaps(eng_state.board, eng_result.state.current_piece)
    /\ eng_result.event.game_over

\* A running state with occupied spawn cells beside the piece: not terminal.
C29_SpawnedBesideBlocks ==
    /\ Spawned
    /\ ~eng_result.state.game_over
    /\ \E cell \in SpawnCells : eng_state.board[cell[1] + 1][cell[2] + 1] # None

\* Sequences of rotations of one piece, on a board with room to turn.
TurnRows == 7
TurnCols == 7
MaxTurns == 5

TurnEngine == TetrisEngine(TurnRows, TurnCols)

\* The piece's position: mid-board, at the left wall, or on the top row.
TurnPositions == {<<3, 3>>, <<3, 0>>, <<0, 3>>, <<4, 2>>}

\* At most one occupied cell near the centre of the board.
TurnObstacles == {None, <<2, 3>>, <<3, 2>>, <<4, 4>>, <<1, 2>>}

TurnBoard(obstacle) ==
    [r \in 1..TurnRows |->
        [c \in 1..TurnCols |->
            IF obstacle # None /\ <<r - 1, c - 1>> = obstacle THEN "J" ELSE None]]

TurnInputs ==
    {s \in {[board            |-> TurnBoard(o),
             current_piece    |-> p,
             current_pos      |-> pos,
             current_rotation |-> rot,
             score            |-> 340,
             lines_cleared    |-> 3,
             game_over        |-> FALSE,
             move_count       |-> 12] :
               o \in TurnObstacles, p \in Tetromino,
               pos \in TurnPositions, rot \in 0..3} :
        ~check_collision(TurnEngine, s)}

\* eng_state is the state the sequence starts from; eng_result.state is the
\* state the caller holds now, and eng_result.trail the accepted rotations with
\* the states they returned.
TurnInit ==
    /\ OrchestratorInit
    /\ eng_state \in TurnInputs
    /\ eng_result = [op |-> "none", action |-> None, state |-> eng_state,
                     event |-> NoEvent, trail |-> << >>]
    /\ val_call = NoValidatorCall

\* rotate, applied to the state the previous call returned.
EngineTurn ==
    /\ Len(eng_result.trail) < MaxTurns
    /\ \E clockwise \in BOOLEAN :
         \E r \in {rotate(TurnEngine, eng_result.state, clockwise)} :
            eng_result' =
                [op     |-> "rotate",
                 action |-> IF clockwise THEN "ROTATE_CW" ELSE "ROTATE_CCW",
                 state  |-> r.state,
                 event  |-> r.event,
                 trail  |-> IF r.event = NoEvent THEN eng_result.trail
                            ELSE Append(eng_result.trail,
                                        [action |-> r.event.action,
                                         state  |-> r.state])]
    /\ UNCHANGED <<game_state, started, event_store, last, eng_state, val_call, inflight>>

SpecTurn == TurnInit /\ [][EngineTurn]_vars

\* (dr, dc) -> (dc, -dr) applied n times, written out.
Turned(cell, n) ==
    CASE n = 0 -> cell
      [] n = 1 -> <<cell[2], -cell[1]>>
      [] n = 2 -> <<-cell[1], -cell[2]>>
      [] n = 3 -> <<-cell[2], cell[1]>>

\* The state before the i-th accepted rotation.
Before(i) == IF i = 1 THEN eng_state ELSE eng_result.trail[i - 1].state

SameTurn(s, t) ==
    /\ s.current_rotation = t.current_rotation
    /\ PieceCells(s, s.current_pos) = PieceCells(t, t.current_pos)

\* The actions of the accepted rotations from the i-th to the j-th.
TurnActions(i, j) == {eng_result.trail[k].action : k \in i..j}

\* C30: through any sequence of rotations the index stays in 0..3, the cells
\* are the base offsets with (dr, dc) -> (dc, -dr) applied index times, an
\* accepted ROTATE_CW followed by an accepted ROTATE_CCW, and four accepted
\* ROTATE_CW, restore index and cells, and position and board never change.
C30_RotationIsQuarterTurnAction ==
    \A i \in 1..Len(eng_result.trail) :
        LET s == eng_result.trail[i].state
        IN /\ s.current_rotation \in 0..3
           /\ get_piece_blocks(s.current_piece, s.current_rotation)
                = [k \in 1..Len(SHAPES[s.current_piece]) |->
                      Turned(SHAPES[s.current_piece][k], s.current_rotation)]
           /\ s.current_pos = eng_state.current_pos
           /\ s.board = eng_state.board
           /\ s.current_piece = eng_state.current_piece
           /\ (i >= 2 /\ eng_result.trail[i - 1].action = "ROTATE_CW"
                      /\ eng_result.trail[i].action = "ROTATE_CCW")
                => SameTurn(s, Before(i - 1))
           /\ (i >= 4 /\ TurnActions(i - 3, i) = {"ROTATE_CW"})
                => SameTurn(s, Before(i - 3))

\* An accepted ROTATE_CW then an accepted ROTATE_CCW of a piece that is not
\* the square, the first of which changed the cells.
C30_Witness ==
    /\ Len(eng_result.trail) = 2
    /\ eng_result.trail[1].action = "ROTATE_CW"
    /\ eng_result.trail[2].action = "ROTATE_CCW"
    /\ PieceCells(eng_result.trail[1].state, eng_state.current_pos)
         # PieceCells(eng_state, eng_state.current_pos)

\* Four accepted ROTATE_CW in a row.
C30_FullTurn ==
    /\ Len(eng_result.trail) = 4
    /\ TurnActions(1, 4) = {"ROTATE_CW"}
    /\ eng_state.current_piece = "T"

\* A rotation refused in the middle of a sequence.
C30_RefusedTurn ==
    /\ Len(eng_result.trail) >= 1
    /\ eng_result.op = "rotate"
    /\ eng_result.event = NoEvent

(***************************************************************************)
(* Invariants of the board and of the active piece.                        *)
(***************************************************************************)

\* A board of the engine's dimensions whose cells are empty or one piece tag.
WellFormedBoard(eng, board) ==
    /\ Len(board) = eng.rows
    /\ \A r \in 1..Len(board) :
          /\ Len(board[r]) = eng.cols
          /\ \A c \in 1..Len(board[r]) : board[r][c] \in Tetromino \cup {None}

\* C31: the board has exactly rows x cols cells, before and after every
\* move, rotation, hard drop and lock with any number of cleared rows, and
\* every cell is empty or holds one piece tag.
C31_BoardKeepsItsDimensions ==
    /\ WellFormedBoard(Engine, eng_state.board)
    /\ WellFormedBoard(Engine, eng_result.state.board)

\* A lock that cleared at least two rows at once.
C31_Witness ==
    /\ LockedByMove
    /\ FullRowCount(eng_state, LockPosition) >= 2
    /\ eng_result.state.board # eng_state.board
    /\ WellFormedBoard(Engine, eng_result.state.board)

\* The same for the boards of the sessions the orchestrator holds.
C31_SessionBoardsKeepDimensions ==
    \A e \in started : WellFormedBoard(Agent.engine, game_state[e].board)

HasFullRow(board) == \E r \in 1..Len(board) : RowIsFull(board[r])

\* C32: after every lock no row of the board is fully occupied: every row
\* that was full after merging the piece has been removed.
C32_NoFullRowAfterLock ==
    (LockedByMove \/ LockedByDrop) => ~HasFullRow(eng_result.state.board)

\* C32 restricted to locks that fill at most one row.
C32_HoldsUpToOneRow ==
    ((LockedByMove \/ LockedByDrop) /\ FullRowCount(eng_state, LockPosition) <= 1)
        => ~HasFullRow(eng_result.state.board)

\* A lock on a board without a full row leaves a full row behind, although
\* the event counts it among the cleared rows.
C32_FullRowSurvives ==
    /\ LockedByMove
    /\ ~HasFullRow(eng_state.board)
    /\ HasFullRow(eng_result.state.board)
    /\ eng_result.event.lines_cleared >= 2

\* The cells of the piece of s when it is at pos, from the base offsets.
CellsAt(s, pos) ==
    {<<pos[1] + Turned(SHAPES[s.current_piece][k], s.current_rotation)[1],
       pos[2] + Turned(SHAPES[s.current_piece][k], s.current_rotation)[2]>> :
        k \in 1..Len(SHAPES[s.current_piece])}

\* Four cells, all inside the agent's board and on empty cells of s.board.
FourFreeCells(s, pos) ==
    /\ Cardinality(CellsAt(s, pos)) = 4
    /\ \A cell \in CellsAt(s, pos) :
          /\ cell[1] \in 0..(AgentRows - 1)
          /\ cell[2] \in 0..(AgentCols - 1)
          /\ s.board[cell[1] + 1][cell[2] + 1] = None

ActivePieceIsPlaced(s) ==
    (s.current_piece # None /\ ~s.game_over) => FourFreeCells(s, s.current_pos)

\* The board of s with the piece written into its cells at pos.
BoardWithPiece(s, pos) ==
    [r \in 1..AgentRows |->
        [c \in 1..AgentCols |->
            IF <<r - 1, c - 1>> \in CellsAt(s, pos) THEN s.current_piece
            ELSE s.board[r][c]]]

\* C33: in every non-terminal session state with an active piece the four
\* cells of the piece are inside the board and empty; every lock of an
\* orchestrated run (a colliding MOVE_DOWN or a hard drop) therefore writes
\* four cells, none out of bounds and none already occupied.
C33_ActivePieceInsideAndFree ==
    [][LET e == last'.event_payload
           locked == last'.op = "execute_action" /\ last'.outcome = "returned"
                        /\ e.action = "PIECE_LOCKED"
           dropped == last'.op = "execute_action" /\ last'.outcome = "returned"
                        /\ e.action = "HARD_DROP"
           uncleared == game_state'["game-1"].lines_cleared = Session.lines_cleared
       IN /\ ActivePieceIsPlaced(Session)
          /\ ActivePieceIsPlaced(game_state'["game-1"])
          /\ (locked) => FourFreeCells(Session, e.position)
          /\ (dropped) => FourFreeCells(Session, e.to)
          /\ (locked /\ uncleared)
                => game_state'["game-1"].board = BoardWithPiece(Session, e.position)
          /\ (dropped /\ uncleared)
                => game_state'["game-1"].board = BoardWithPiece(Session, e.to)]_vars

OccupiedCells(board) ==
    {<<r, c>> \in (1..Len(board)) \X (1..AgentCols) : board[r][c] # None}

\* A piece that was moved sideways and locked by a colliding MOVE_DOWN; the
\* board holds its four cells and the next piece is active.
C33_Witness ==
    /\ last.op = "execute_action"
    /\ last.event_payload.action = "PIECE_LOCKED"
    /\ last.event_payload.position[2] # 3
    /\ Cardinality(OccupiedCells(Session.board)) = 4
    /\ Session.current_piece # None
    /\ ~Session.game_over
    /\ FourFreeCells(Session, Session.current_pos)

\* A hard drop that fell and locked four cells.
C33_Dropped ==
    /\ last.op = "execute_action"
    /\ last.event_payload.action = "HARD_DROP"
    /\ last.event_payload.to # last.event_payload.from
    /\ Cardinality(OccupiedCells(Session.board)) = 4

\* The state part of C33 for every session, also with calls interleaved.
C33_SessionPiecesArePlaced ==
    \A e \in ExecutionIds : ActivePieceIsPlaced(game_state[e])

(***************************************************************************)
(* Sessions in which one lock completes several rows.                      *)
(***************************************************************************)

\* The bottom `full` rows filled except for column 3.
WellBoard(full) ==
    [r \in 1..AgentRows |->
        [c \in 1..AgentCols |->
            IF r > AgentRows - full /\ c # 4 THEN "T" ELSE None]]

\* A session after MaxClears earlier locks, the piece I just spawned above
\* a well one column wide and 0 to AgentRows - 1 rows deep.
WellInit ==
    /\ \E clears \in [1..MaxClears -> PriorLines] : \E full \in 0..(AgentRows - 1) :
       \E log \in {PriorLog(clears, MaxClears)} :
          /\ event_store = [e \in ExecutionIds |->
                               IF e = "game-1" THEN log ELSE << >>]
          /\ game_state =
               [e \in ExecutionIds |->
                   IF e = "game-1"
                   THEN [board            |-> WellBoard(full),
                         current_piece    |-> "I",
                         current_pos      |-> <<0, 3>>,
                         current_rotation |-> 0,
                         score            |-> log[Len(log) - 1].payload.total_score,
                         lines_cleared    |-> SumLines(clears, MaxClears),
                         game_over        |-> FALSE,
                         move_count       |-> MaxClears * AgentRows]
                   ELSE new_game(AgentRows, AgentCols)]
    /\ started = {"game-1"}
    /\ last = NoCall
    /\ inflight = NoInflight
    /\ eng_state = new_game(EngRows, EngCols)
    /\ eng_result = NoEngineResult
    /\ val_call = NoValidatorCall

SpecWell == WellInit /\ [][MidGameAction]_vars

\* C34: in an orchestrated run the points_earned of every lock event is the
\* validator's table value for its lines_cleared, validate_line_clear never
\* rejects inside execute_action, and no fraud_detected FAILED event is
\* appended.
C34_FraudBranchUnreachable ==
    /\ \A i \in 1..Len(SessionLog) :
          /\ SessionLog[i].payload.action = "PIECE_LOCKED"
                => SessionLog[i].payload.points_earned
                       = expected_points(SessionLog[i].payload.lines_cleared)
          /\ SessionLog[i].payload.action # "LINE_CLEAR_FRAUD"
          /\ SessionLog[i].state = "FAILED"
                => SessionLog[i].payload.stage # "fraud_detected"
    /\ last.policy_result.reason[1] # "Invalid scoring"
    /\ last.op = "execute_action" /\ last.event_payload.action = "PIECE_LOCKED"
          => /\ last.outcome = "returned"
             /\ last.policy_result.approved

\* A lock inside execute_action that completed three rows at once and was
\* accepted with 500 points.
C34_Witness ==
    /\ last.op = "execute_action"
    /\ last.outcome = "returned"
    /\ last.event_payload.action = "PIECE_LOCKED"
    /\ last.event_payload.lines_cleared = 3
    /\ last.event_payload.points_earned = 500
    /\ \E i \in 1..Len(SessionLog) :
          /\ SessionLog[i].state = "RUNNING"
          /\ SessionLog[i].payload.action = "PIECE_LOCKED"
          /\ SessionLog[i].payload.lines_cleared = 3
          /\ SessionLog[i].payload.points_earned = 500

\* Locks completing one row and two rows.
C34_OneRow == last.event_payload.action = "PIECE_LOCKED"
                  /\ last.event_payload.lines_cleared = 1
C34_TwoRows == last.event_payload.action = "PIECE_LOCKED"
                  /\ last.event_payload.lines_cleared = 2

====
